---- MODULE Spec2Model ----
(***************************************************************************)
(* Ingestion pipeline of oblivious_audit: countCSVLines,                   *)
(* validateColumnForD, loadDatabaseFromCSV and the facade                  *)
(* createVLHEPIRFromCSV of src/src/data_loader.cpp (csv_loader.cpp holds   *)
(* the same three routines, line for line, and the facade createPIRFromCSV)*)
(*                                                                         *)
(* A text is a sequence of one-character strings.  A uint64_t is          *)
(* represented by its two's complement reading: n stands for n and -k for  *)
(* 2^64 - k, which is exact for every value the bounded cells can produce. *)
(***************************************************************************)
EXTENDS Integers, Sequences, FiniteSets, TLC

\* Bounds of the model.
MaxLines == 3
MaxD == 2
MaxN == 3
MaxCap == 1
MaxParquetRows == 2

VARIABLES
    path,       \* path of the source
    kind,       \* format detected from the path: "csv", "parquet", "unknown"
    file,       \* content of the CSV source
    table,      \* content of the Parquet source
    columnName, \* column asked of the Parquet source, "" for the first one
    parquet,    \* whether the build defines PARQUET_SUPPORT
    readable,   \* whether the source can be opened
    d,          \* bit width
    hasHeader,  \* header flag
    pc,         \* position of the caller
    N,          \* row count returned by countCSVLines
    vres,       \* outcome of validateColumnForD, with its diagnostics
    db,         \* the Database handed to loadDatabaseFromCSV
    maxRows,    \* row cap of the load
    lres,       \* outcome of loadDatabaseFromCSV
    pir,        \* the engine's database after hand-off
    run         \* what main has printed and the locals of its query

vars ==
    <<path, kind, file, table, columnName, parquet, readable, d, hasHeader,
      pc, N, vres, db, maxRows, lres, pir, run>>

\* What no ingestion routine writes.
source == <<path, kind, file, table, columnName, parquet, readable, d, hasHeader>>

----------------------------------------------------------------------------
\* Characters and strings

\* The set " \t\r\n" given to find_first_not_of / find_last_not_of.
Whitespace == {" ", "\t", "\r", "\n"}

\* The vertical tab, character 11, written as the character itself.
VerticalTab == ""

\* The characters isspace() accepts in the C locale, which strtoull skips.
IsSpace == {" ", "\t", "\n", VerticalTab, "\f", "\r"}

DigitChars == <<"0", "1", "2", "3", "4", "5", "6", "7", "8", "9">>

IsDigit(c) == \E i \in 1..10 : DigitChars[i] = c

DigitVal(c) == (CHOOSE i \in 1..10 : DigitChars[i] = c) - 1

RECURSIVE Pow2(_)
Pow2(n) == IF n = 0 THEN 1 ELSE 2 * Pow2(n - 1)

\* Position of the first c in s, 0 (npos) when there is none.
Find(s, c) ==
    IF \E i \in 1..Len(s) : s[i] = c
    THEN CHOOSE i \in 1..Len(s) : s[i] = c /\ \A j \in 1..(i - 1) : s[j] # c
    ELSE 0

FindFirstNotOf(s, set) ==
    IF \E i \in 1..Len(s) : s[i] \notin set
    THEN CHOOSE i \in 1..Len(s) : s[i] \notin set /\ \A j \in 1..(i - 1) : s[j] \in set
    ELSE 0

FindLastNotOf(s, set) ==
    IF \E i \in 1..Len(s) : s[i] \notin set
    THEN CHOOSE i \in 1..Len(s) : s[i] \notin set /\ \A j \in (i + 1)..Len(s) : s[j] \in set
    ELSE 0

\* cell.erase(0, find_first_not_of(ws)); cell.erase(find_last_not_of(ws) + 1)
Trim(cell) ==
    LET a == FindFirstNotOf(cell, Whitespace)
        front == IF a = 0 THEN <<>> ELSE SubSeq(cell, a, Len(cell))
        b == FindLastNotOf(front, Whitespace)
    IN  SubSeq(front, 1, b)

\* The lines successive std::getline(file, line) calls return: the text is cut
\* at each "\n"; a final piece is a line only when it holds a character.
RECURSIVE GetLines(_)
GetLines(s) ==
    IF s = <<>> THEN <<>>
    ELSE LET k == Find(s, "\n")
         IN  IF k = 0 THEN <<s>>
             ELSE <<SubSeq(s, 1, k - 1)>> \o GetLines(SubSeq(s, k + 1, Len(s)))

\* if (hasHeader && std::getline(file, line)) {}
SkipHeader(lines, hdr) == IF hdr /\ lines # <<>> THEN Tail(lines) ELSE lines

\* std::getline(ss, cell, ','): fails only on an empty line.
FirstCell(line) ==
    LET k == Find(line, ",")
    IN  [ok |-> line # <<>>,
         cell |-> IF k = 0 THEN line ELSE SubSeq(line, 1, k - 1)]

\* Decimal value of a digit string (at most nine digits here).
RECURSIVE DecValue(_)
DecValue(ds) ==
    IF ds = <<>> THEN 0
    ELSE 10 * DecValue(SubSeq(ds, 1, Len(ds) - 1)) + DigitVal(ds[Len(ds)])

RECURSIVE StripZeros(_)
StripZeros(ds) ==
    IF ds # <<>> /\ ds[1] = "0" THEN StripZeros(Tail(ds)) ELSE ds

\* The decimal digits of ULLONG_MAX = 2^64 - 1.
UllMaxDigits ==
    <<"1", "8", "4", "4", "6", "7", "4", "4", "0", "7",
      "3", "7", "0", "9", "5", "5", "1", "6", "1", "5">>

\* The decimal digits of 2^64, the least literal that does not fit 64 bits.
TwoPow64Digits ==
    <<"1", "8", "4", "4", "6", "7", "4", "4", "0", "7",
      "3", "7", "0", "9", "5", "5", "1", "6", "1", "6">>

\* a > b for two digit strings of the same length.
DigitsGreater(a, b) ==
    \E i \in 1..Len(a) :
        /\ DigitVal(a[i]) > DigitVal(b[i])
        /\ \A j \in 1..(i - 1) : a[j] = b[j]

\* The text that is left once the leading isspace characters are skipped.
SkipSpace(s) ==
    LET a == FindFirstNotOf(s, IsSpace)
    IN  IF a = 0 THEN <<>> ELSE SubSeq(s, a, Len(s))

\* The length of the run of digits rest starts with.
DigitRun(rest) ==
    IF \E i \in 1..Len(rest) : ~IsDigit(rest[i])
    THEN (CHOOSE i \in 1..Len(rest) :
            ~IsDigit(rest[i]) /\ \A j \in 1..(i - 1) : IsDigit(rest[j])) - 1
    ELSE Len(rest)

\* A conversion that saturates at ULLONG_MAX and throws nothing, as the
\* bare strtoull does.
ConvertSaturates(neg, digits) ==
    IF Len(digits) > 9 THEN [ok |-> TRUE, big |-> TRUE, value |-> 0]
    ELSE [ok |-> TRUE, big |-> FALSE,
          value |-> IF neg THEN 0 - DecValue(digits) ELSE DecValue(digits)]

\* ds with zeros in front, n digits in all.
PadZeros(ds, n) ==
    [i \in 1..n |-> IF i <= n - Len(ds) THEN "0" ELSE ds[i - (n - Len(ds))]]

\* The digits 1..i of a - b - borrow, for two digit strings of the same
\* length with a >= b, column by column from the right.
RECURSIVE SubDigits(_, _, _, _)
SubDigits(a, b, i, borrow) ==
    IF i = 0 THEN <<>>
    ELSE SubDigits(a, b, i - 1,
                   IF DigitVal(a[i]) - DigitVal(b[i]) - borrow < 0 THEN 1 ELSE 0)
         \o <<DigitChars[((DigitVal(a[i]) - DigitVal(b[i]) - borrow + 10) % 10) + 1]>>

\* The digits of 2^64 - v, for the digits of a v with 0 < v < 2^64: the
\* negation of v in uint64_t arithmetic.
Negated(digits) ==
    StripZeros(SubDigits(TwoPow64Digits, PadZeros(digits, 20), 20, 0))

\* A value of ten digits or more that fits 64 bits.  After a minus sign it is
\* negated, and the result is kept when it has less than ten digits.
ConvertWide(neg, digits) ==
    IF neg /\ Len(Negated(digits)) <= 9
    THEN [ok |-> TRUE, big |-> FALSE, value |-> DecValue(Negated(digits))]
    ELSE [ok |-> TRUE, big |-> TRUE, value |-> 0]

\* The conversion of a run of digits without leading zeros.
Convert(neg, digits) ==
    IF Len(digits) > 20 \/ (Len(digits) = 20 /\ DigitsGreater(digits, UllMaxDigits))
    THEN [ok |-> FALSE, big |-> FALSE, value |-> 0]
    ELSE IF Len(digits) > 9 THEN ConvertWide(neg, digits)
    ELSE [ok |-> TRUE, big |-> FALSE,
          value |-> IF neg THEN 0 - DecValue(digits) ELSE DecValue(digits)]

ParseDigits(neg, rest, stop) ==
    IF stop = 0 THEN [ok |-> FALSE, big |-> FALSE, value |-> 0]
    ELSE Convert(neg, StripZeros(SubSeq(rest, 1, stop)))

ParseUnsigned(neg, rest) == ParseDigits(neg, rest, DigitRun(rest))

ParseSigned(body) ==
    ParseUnsigned(body # <<>> /\ body[1] = "-",
                  IF body # <<>> /\ body[1] \in {"-", "+"} THEN Tail(body) ELSE body)

\* std::stoull(cell): strtoull in base 10.  Leading isspace characters are
\* skipped, one sign is accepted, then the longest run of digits is read and
\* whatever follows it is ignored.  No digit: std::invalid_argument.  More
\* than 64 bits: std::out_of_range.  A minus sign negates the value in
\* uint64_t arithmetic.  ok = FALSE stands for either exception.  big marks
\* a result of ten digits or more whose negation, too, has ten digits or
\* more: it is above every 2^d - 1 of the model and its digits are not kept.
Stoull(s) == ParseSigned(SkipSpace(s))

\* entryValue > maxValue, on the unsigned values.
Exceeds(v, maxValue) == v.big \/ v.value < 0 \/ v.value > maxValue

----------------------------------------------------------------------------
\* detectFileFormat

UpperCase ==
    <<"A", "B", "C", "D", "E", "F", "G", "H", "I", "J", "K", "L", "M",
      "N", "O", "P", "Q", "R", "S", "T", "U", "V", "W", "X", "Y", "Z">>

LowerCase ==
    <<"a", "b", "c", "d", "e", "f", "g", "h", "i", "j", "k", "l", "m",
      "n", "o", "p", "q", "r", "s", "t", "u", "v", "w", "x", "y", "z">>

\* ::tolower on one character.
ToLower(c) ==
    IF \E i \in 1..Len(UpperCase) : UpperCase[i] = c
    THEN LowerCase[CHOOSE i \in 1..Len(UpperCase) : UpperCase[i] = c]
    ELSE c

\* std::transform(ext.begin(), ext.end(), ext.begin(), ::tolower)
Lowered(ext) == [i \in 1..Len(ext) |-> ToLower(ext[i])]

\* filePath.find_last_of('.'), 0 (npos) when there is none.
FindLastOf(s, c) ==
    IF \E i \in 1..Len(s) : s[i] = c
    THEN CHOOSE i \in 1..Len(s) : s[i] = c /\ \A j \in (i + 1)..Len(s) : s[j] # c
    ELSE 0

\* A detection that compares the extension as it is written.
FormatOfExtensionCaseSensitive(p, lastDot) ==
    IF lastDot = 0 THEN "unknown"
    ELSE IF SubSeq(p, lastDot, Len(p)) = <<".", "c", "s", "v">> THEN "csv"
    ELSE IF SubSeq(p, lastDot, Len(p)) = <<".", "p", "a", "r", "q", "u", "e", "t">>
    THEN "parquet"
    ELSE "unknown"

\* A detection that takes every path that is not Parquet for CSV.
FormatOfExtensionDefaultCSV(p, lastDot) ==
    IF lastDot # 0
       /\ Lowered(SubSeq(p, lastDot, Len(p))) = <<".", "p", "a", "r", "q", "u", "e", "t">>
    THEN "parquet"
    ELSE "csv"

\* The branches on lastDot and on ext = filePath.substr(lastDot), lowered.
FormatOfExtension(p, lastDot) ==
    IF lastDot = 0 THEN "unknown"
    ELSE IF Lowered(SubSeq(p, lastDot, Len(p))) = <<".", "c", "s", "v">> THEN "csv"
    ELSE IF Lowered(SubSeq(p, lastDot, Len(p))) = <<".", "p", "a", "r", "q", "u", "e", "t">>
    THEN "parquet"
    ELSE "unknown"

detectFileFormat(p) == FormatOfExtension(p, FindLastOf(p, "."))

----------------------------------------------------------------------------
\* countCSVLines

\* A counter that skips the empty lines only.
CountsLineNonEmpty(line) == line # <<>>

\* A counter that counts every line, the empty ones too.
CountsLineEvery(line) == TRUE

\* !line.empty() && line.find_first_not_of(" \t\r\n") != npos
CountsLine(line) == line # <<>> /\ FindFirstNotOf(line, Whitespace) # 0

RECURSIVE CountLoop(_, _)
CountLoop(lines, count) ==
    IF lines = <<>> THEN count
    ELSE CountLoop(Tail(lines), IF CountsLine(Head(lines)) THEN count + 1 ELSE count)

countCSVLines(f, rd, hdr) ==
    IF ~rd THEN 0 ELSE CountLoop(SkipHeader(GetLines(f), hdr), 0)

----------------------------------------------------------------------------
\* validateColumnForD

\* The body of the scan for one non-empty line: "ok", "nonnumeric" (stoull
\* threw) or "toolarge" (entryValue > maxValue), with the trimmed cell.
\* A validator whose bound is 2^d - 2.
ValidateValueStrict(v, maxValue) ==
    IF ~v.ok THEN "nonnumeric"
    ELSE IF Exceeds(v, maxValue - 1) THEN "toolarge"
    ELSE "ok"

\* A validator that compares no value with the bound.
ValidateValueNoRange(v, maxValue) == IF ~v.ok THEN "nonnumeric" ELSE "ok"

ValidateValue(v, maxValue) ==
    IF ~v.ok THEN "nonnumeric"
    ELSE IF Exceeds(v, maxValue) THEN "toolarge"
    ELSE "ok"

ValidateTrimmed(ok, cell, dd) ==
    [kind |-> IF ~ok \/ cell = <<>> THEN "ok"
              ELSE ValidateValue(Stoull(cell), Pow2(dd) - 1),
     cell |-> cell]

ValidateFirstCell(fc, dd) == ValidateTrimmed(fc.ok, Trim(fc.cell), dd)

ValidateCell(line, dd) == ValidateFirstCell(FirstCell(line), dd)

\* The while loop: k lines are consumed, rowCount rows are passed.  row and
\* cell are what the error message prints; examined is the number of lines
\* read from the stream and rows the value of rowCount when the function
\* returns.
RECURSIVE ValidateLoop(_, _, _, _)
ValidateLoop(lines, k, rowCount, dd) ==
    IF k >= Len(lines)
    THEN [valid |-> TRUE, kind |-> "ok", row |-> 0, cell |-> <<>>, examined |-> k,
          rows |-> rowCount]
    ELSE LET line == lines[k + 1]
             c == ValidateCell(line, dd)
         IN  IF line = <<>> THEN ValidateLoop(lines, k + 1, rowCount, dd)
             ELSE IF c.kind # "ok"
                  THEN [valid |-> FALSE, kind |-> c.kind, row |-> rowCount + 1,
                        cell |-> c.cell, examined |-> k + 1, rows |-> rowCount]
             ELSE ValidateLoop(lines, k + 1, rowCount + 1, dd)

\* A validator that scans without testing that the file opened.
validateColumnForDIgnoresOpen(f, rd, dd, hdr) ==
    ValidateLoop(SkipHeader(GetLines(f), hdr), 0, 0, dd)

validateColumnForD(f, rd, dd, hdr) ==
    IF ~rd
    THEN [valid |-> FALSE, kind |-> "unreadable", row |-> 0, cell |-> <<>>, examined |-> 0,
          rows |-> 0]
    ELSE ValidateLoop(SkipHeader(GetLines(f), hdr), 0, 0, dd)

----------------------------------------------------------------------------
\* loadDatabaseFromCSV

\* What one non-empty line stores, and whether the clamp branch stored it.
\* A loader that stores the parsed value as it is.
StoreValueNoClamp(v, modulus) ==
    IF ~v.ok THEN [value |-> 0, clamp |-> FALSE]
    ELSE [value |-> v.value, clamp |-> FALSE]

\* A loader that stores 0 for a value above the bound.
StoreValueClampToZero(v, modulus) ==
    IF ~v.ok THEN [value |-> 0, clamp |-> FALSE]
    ELSE IF Exceeds(v, modulus - 1) THEN [value |-> 0, clamp |-> TRUE]
    ELSE [value |-> v.value % modulus, clamp |-> FALSE]

\* A loader that stores 2^d - 1 for a cell that fails to parse.
StoreValueUnparsedStoresMax(v, modulus) ==
    IF ~v.ok THEN [value |-> modulus - 1, clamp |-> FALSE]
    ELSE IF Exceeds(v, modulus - 1) THEN [value |-> modulus - 1, clamp |-> TRUE]
    ELSE [value |-> v.value % modulus, clamp |-> FALSE]

StoreValue(v, modulus) ==
    IF ~v.ok THEN [value |-> 0, clamp |-> FALSE]
    ELSE IF Exceeds(v, modulus - 1) THEN [value |-> modulus - 1, clamp |-> TRUE]
    ELSE [value |-> v.value % modulus, clamp |-> FALSE]

StoreTrimmed(cell, dd) ==
    IF cell # <<>> THEN StoreValue(Stoull(cell), Pow2(dd))
    ELSE [value |-> 0, clamp |-> FALSE]

StoreFirstCell(fc, dd) ==
    IF fc.ok /\ fc.cell # <<>> THEN StoreTrimmed(Trim(fc.cell), dd)
    ELSE [value |-> 0, clamp |-> FALSE]

LoadCell(line, dd) == StoreFirstCell(FirstCell(line), dd)

\* A loader that writes every row at the start of the buffer.
StoreAtFirst(data, index, c) == [data EXCEPT ![1] = c.value]

\* db.data[index] = c.value, and the record of a clamp at index.
StoreAt(data, index, c) == [data EXCEPT ![index + 1] = c.value]

ClampedAt(clamped, index, c) == IF c.clamp THEN clamped \cup {index} ELSE clamped

\* A loop that goes on past the row cap.
LoadContinuesNoCap(index, n, cap) == index < n

\* index < db.N && (maxRows == 0 || index < maxRows)
LoadContinues(index, n, cap) == index < n /\ (cap = 0 \/ index < cap)

\* A loader that also passes over the lines of whitespace.
LoaderSkipsBlank(line) == ~CountsLine(line)

\* if (line.empty()) continue;
LoaderSkips(line) == line = <<>>

\* while (getline(file, line) && index < db.N && (maxRows == 0 || index < maxRows))
\* k lines are consumed; data[index + 1] is the C++ db.data[index].
RECURSIVE LoadLoop(_, _, _, _, _, _, _, _)
LoadLoop(lines, k, index, data, clamped, n, cap, dd) ==
    IF k >= Len(lines) \/ ~LoadContinues(index, n, cap)
    THEN [data |-> data, index |-> index, clamped |-> clamped]
    ELSE IF LoaderSkips(lines[k + 1])
    THEN LoadLoop(lines, k + 1, index, data, clamped, n, cap, dd)
    ELSE LoadLoop(lines, k + 1, index + 1,
                  StoreAt(data, index, LoadCell(lines[k + 1], dd)),
                  ClampedAt(clamped, index, LoadCell(lines[k + 1], dd)),
                  n, cap, dd)

\* What an entry of memory that malloc returned and nothing has written may
\* hold: any value of [0, 2^d - 1] (a fresh page, what a freed buffer left),
\* or a value above 2^d - 1; 2^d stands for every such value.
GarbageValues(dd) == 0..Pow2(dd)

\* The contents malloc may return for n entries.
Garbage(n, dd) == [1..n -> GarbageValues(dd)]

\* Two of these contents: 0 in every entry, a value above 2^d - 1 in every
\* entry.
UniformGarbage(n, dd) == {[i \in 1..n |-> v] : v \in {0, Pow2(dd)}}

\* What a call that makes no malloc is given for it.
NoMalloc == <<>>

\* Memory that malloc returned and nothing has written: reading it is
\* undefined behaviour, and it holds whatever the heap held, garbage.
Uninitialised(n, garbage) == [i \in 1..n |-> garbage[i]]

\* memset(db.data, 0, db.N * sizeof(entry_t))
Zeroed(n) == [i \in 1..n |-> 0]

\* The result of a load: the Database afterwards, the return value, whether
\* the file was opened, the final index and the indices the clamp wrote.
LoadFailed(dbOut) ==
    [db |-> dbOut, ret |-> FALSE, opened |-> FALSE, index |-> 0, clamped |-> {}]

LoadDone(db1, r) ==
    [db |-> [db1 EXCEPT !.data = r.data], ret |-> TRUE, opened |-> TRUE,
     index |-> r.index, clamped |-> r.clamped]

\* if (!db.alloc) { db.data = malloc(db.N entries); db.alloc = true; }
AllocateIfNeeded(dbIn, mallocOk, n, garbage) ==
    IF ~dbIn.alloc
    THEN [dbIn EXCEPT !.alloc = TRUE, !.isNull = ~mallocOk,
                      !.data = IF mallocOk THEN Uninitialised(n, garbage) ELSE <<>>,
                      !.buf = IF mallocOk THEN "loader" ELSE "none"]
    ELSE dbIn

\* A loader that goes on when the file did not open.
LoadZeroedIgnoresOpen(db1, f, rd, dd, hdr, cap) ==
    LoadDone(db1, LoadLoop(SkipHeader(GetLines(f), hdr), 0, 0,
                           db1.data, {}, db1.N, cap, dd))

\* After the memset: the open check, the header and the loop.
LoadZeroed(db1, f, rd, dd, hdr, cap) ==
    IF ~rd THEN LoadFailed(db1)
    ELSE LoadDone(db1, LoadLoop(SkipHeader(GetLines(f), hdr), 0, 0,
                                db1.data, {}, db1.N, cap, dd))

\* A loader without the memset.
LoadAllocatedNoMemset(db0, f, rd, dd, hdr, cap) ==
    IF db0.isNull THEN LoadFailed(db0)
    ELSE LoadZeroed(db0, f, rd, dd, hdr, cap)

\* After the allocation: the null check and the memset.
LoadAllocated(db0, f, rd, dd, hdr, cap) ==
    IF db0.isNull THEN LoadFailed(db0)
    ELSE LoadZeroed([db0 EXCEPT !.data = Zeroed(db0.N)], f, rd, dd, hdr, cap)

\* dbIn is the Database passed by reference, mallocOk whether a malloc made
\* here succeeds, garbage what the memory it returns holds.
loadDatabaseFromCSV(dbIn, mallocOk, garbage, f, rd, dd, hdr, cap) ==
    LoadAllocated(AllocateIfNeeded(dbIn, mallocOk, dbIn.N, garbage), f, rd, dd, hdr, cap)

----------------------------------------------------------------------------
\* printCSVStats

\* a < b on uint64_t values; a negative number n stands for 2^64 + n.
ULess(a, b) == IF (a < 0) = (b < 0) THEN a < b ELSE b < 0

\* UINT64_MAX
UllMax == 0 - 1

\* uint64_t minVal = UINT64_MAX, maxVal = 0; printed: the report was written.
\* big: a value of ten digits or more was met; its digits are not kept and
\* it is left out of min and max.
NoStats == [printed |-> FALSE, N |-> 0, min |-> UllMax, max |-> 0, big |-> FALSE]

\* if (value < minVal) minVal = value; if (value > maxVal) maxVal = value;
StatsNote(st, value) ==
    [st EXCEPT !.min = IF ULess(value, st.min) THEN value ELSE st.min,
               !.max = IF ULess(st.max, value) THEN value ELSE st.max]

\* Statistics that take a cell stoull rejects for a 0.
StatsValueUnparsedIsZero(st, v) ==
    IF ~v.ok THEN StatsNote(st, 0)
    ELSE IF v.big THEN [st EXCEPT !.big = TRUE]
    ELSE StatsNote(st, v.value)

\* try { value = std::stoull(cell); ... } catch (...) { }
StatsValue(st, v) ==
    IF ~v.ok THEN st
    ELSE IF v.big THEN [st EXCEPT !.big = TRUE]
    ELSE StatsNote(st, v.value)

StatsTrimmed(st, cell) == IF cell = <<>> THEN st ELSE StatsValue(st, Stoull(cell))

\* if (line.empty()) continue; then the first cell, trimmed.
StatsLine(st, line) ==
    IF line = <<>> THEN st ELSE StatsTrimmed(st, Trim(FirstCell(line).cell))

RECURSIVE StatsLoop(_, _)
StatsLoop(lines, st) ==
    IF lines = <<>> THEN st ELSE StatsLoop(Tail(lines), StatsLine(st, Head(lines)))

StatsReport(n, st) == [st EXCEPT !.printed = TRUE, !.N = n]

printCSVStats(f, rd, dd, hdr) ==
    StatsReport(countCSVLines(f, rd, hdr),
                IF rd THEN StatsLoop(SkipHeader(GetLines(f), hdr), NoStats) ELSE NoStats)

----------------------------------------------------------------------------
\* The Parquet routines (compiled under PARQUET_SUPPORT).  A table is a
\* sequence of columns; a column has a name, one physical type and a sequence
\* of chunks; a chunk is a sequence of entries; an entry is null or a 64-bit
\* value, held as its signed reading (-1 in a UINT64 column is 2^64 - 1).

Null == [null |-> TRUE, v |-> 0]
Val(x) == [null |-> FALSE, v |-> x]

RECURSIVE Flatten(_)
Flatten(chunks) ==
    IF chunks = <<>> THEN <<>> ELSE Head(chunks) \o Flatten(Tail(chunks))

\* table->num_rows()
NumRows(t) == IF t.cols = <<>> THEN 0 ELSE Len(Flatten(t.cols[1].chunks))

\* countParquetLines: 0 when the file cannot be opened or read.
countParquetLines(t, rd) == IF ~rd THEN 0 ELSE NumRows(t)

\* colName = columnName.empty() ? table->ColumnName(0) : columnName
ColName(t, name) == IF name = "" THEN t.cols[1].name ELSE name

\* table->GetColumnByName(colName): the position of the column, 0 for none.
GetColumnByName(t, name) ==
    IF \E i \in 1..Len(t.cols) : t.cols[i].name = name
    THEN CHOOSE i \in 1..Len(t.cols) :
            t.cols[i].name = name /\ \A j \in 1..(i - 1) : t.cols[j].name # name
    ELSE 0

\* A Parquet validator that compares no entry with the bound.
ParquetEntryValidNoRange(type, e, dd) == type \in {"INT64", "UINT64"}

\* The check of one entry of a chunk of the given type.
ParquetEntryValid(type, e, dd) ==
    \/ e.null
    \/ type = "INT64" /\ ~(e.v < 0 \/ e.v > Pow2(dd) - 1)
    \/ type = "UINT64" /\ ~Exceeds([big |-> FALSE, value |-> e.v], Pow2(dd) - 1)

ParquetColumnValid(col, dd) ==
    \A i \in 1..Len(col.chunks) :
        /\ col.type \in {"INT64", "UINT64"}
        /\ \A j \in 1..Len(col.chunks[i]) :
              ParquetEntryValid(col.type, col.chunks[i][j], dd)

ParquetValidateFrom(t, c, dd) == c # 0 /\ ParquetColumnValid(t.cols[c], dd)

validateParquetColumnForD(t, rd, dd, name) ==
    rd /\ ParquetValidateFrom(t, GetColumnByName(t, ColName(t, name)), dd)

\* What one entry stores: 0 for null, std::max(0LL, value) for INT64, the
\* value for UINT64.  Nothing is clamped or reduced.
ParquetStore(type, e) ==
    IF e.null THEN 0
    ELSE IF type = "INT64" THEN (IF e.v < 0 THEN 0 ELSE e.v)
    ELSE e.v

\* db.data[idx] = v.  Only a write inside the buffer is kept in data; a
\* write at idx >= db.N lands outside it, which is undefined behaviour (see
\* the outcomes of CallParquetLoadInto).
ParquetWrite(data, idx, v) ==
    IF idx < Len(data) THEN [data EXCEPT ![idx + 1] = v] ELSE data

\* The two nested loops: entries of INT64 and UINT64 chunks are written at
\* idx while idx < n; chunks of another type are passed over.  The indices
\* written are 0 .. idx - 1 of the result.
RECURSIVE ParquetLoop(_, _, _, _, _)
ParquetLoop(type, entries, idx, data, n) ==
    IF entries = <<>> \/ ~(idx < n) \/ type \notin {"INT64", "UINT64"}
    THEN [data |-> data, idx |-> idx]
    ELSE ParquetLoop(type, Tail(entries), idx + 1,
                     ParquetWrite(data, idx, ParquetStore(type, Head(entries))), n)

ParquetLoadDone(db0, r) ==
    [db |-> [db0 EXCEPT !.data = r.data], ret |-> TRUE, crashed |-> FALSE,
     index |-> r.idx]

\* loadDatabaseFromParquet after the allocation.  crashed: the buffer is
\* null and an entry is written through it.
ParquetLoadColumn(db0, col, n) ==
    IF db0.isNull
    THEN [db |-> db0, ret |-> ~(col.type \in {"INT64", "UINT64"} /\ n > 0),
          crashed |-> col.type \in {"INT64", "UINT64"} /\ n > 0, index |-> 0]
    ELSE ParquetLoadDone(db0, ParquetLoop(col.type, Flatten(col.chunks), 0, db0.data, n))

\* N = min(num_rows, maxRows > 0 ? maxRows : UINT64_MAX)
ParquetN(t, cap) == IF cap > 0 /\ cap < NumRows(t) THEN cap ELSE NumRows(t)

ParquetLoadFrom(dbIn, mallocOk, garbage, t, c, n) ==
    IF c = 0 THEN [db |-> dbIn, ret |-> FALSE, crashed |-> FALSE, index |-> 0]
    ELSE ParquetLoadColumn(AllocateIfNeeded(dbIn, mallocOk, n, garbage), t.cols[c], n)

\* garbage: what the memory of a malloc made here holds, ParquetN(t, cap)
\* entries.  The entries the loops do not write keep it.
loadDatabaseFromParquet(dbIn, mallocOk, garbage, t, rd, dd, name, cap) ==
    IF ~rd THEN [db |-> dbIn, ret |-> FALSE, crashed |-> FALSE, index |-> 0]
    ELSE ParquetLoadFrom(dbIn, mallocOk, garbage, t,
                         GetColumnByName(t, ColName(t, name)), ParquetN(t, cap))

\* printParquetStats: a null entry is passed over, an INT64 entry counts as
\* std::max(0LL, value), a chunk of another type is passed over.
ParquetStatsEntry(type, st, e) ==
    IF e.null THEN st
    ELSE StatsNote(st, IF type = "INT64" /\ e.v < 0 THEN 0 ELSE e.v)

RECURSIVE ParquetStatsLoop(_, _, _)
ParquetStatsLoop(type, entries, st) ==
    IF entries = <<>> \/ type \notin {"INT64", "UINT64"} THEN st
    ELSE ParquetStatsLoop(type, Tail(entries), ParquetStatsEntry(type, st, Head(entries)))

ParquetStatsFrom(t, c) ==
    IF c = 0 THEN NoStats
    ELSE StatsReport(NumRows(t),
                     ParquetStatsLoop(t.cols[c].type, Flatten(t.cols[c].chunks), NoStats))

\* Nothing is reported when the file cannot be read, when the column is
\* missing, or in a build without PARQUET_SUPPORT.
printParquetStats(t, rd, pq, dd, name) ==
    IF ~pq \/ ~rd THEN NoStats
    ELSE ParquetStatsFrom(t, GetColumnByName(t, ColName(t, name)))

----------------------------------------------------------------------------
\* parseN (main.cpp)

\* str.find("**"): position of the first "*" followed by a "*", 0 for npos.
FindStars(s) ==
    IF \E i \in 1..(Len(s) - 1) : s[i] = "*" /\ s[i + 1] = "*"
    THEN CHOOSE i \in 1..(Len(s) - 1) :
            /\ s[i] = "*" /\ s[i + 1] = "*"
            /\ \A j \in 1..(i - 1) : ~(s[j] = "*" /\ s[j + 1] = "*")
    ELSE 0

\* a & b on non-negative integers.
RECURSIVE BitAnd(_, _)
BitAnd(a, b) ==
    IF a = 0 \/ b = 0 THEN 0
    ELSE 2 * BitAnd(a \div 2, b \div 2) + (IF a % 2 = 1 /\ b % 2 = 1 THEN 1 ELSE 0)

\* The arithmetic of parseN is that of uint64_t.  A value is held as its
\* eight bytes, the least significant first.
RECURSIVE BytesOf(_, _)
BytesOf(x, k) == IF k = 0 THEN <<>> ELSE <<x % 256>> \o BytesOf(x \div 256, k - 1)

\* The bytes of the uint64_t an integer stands for: x itself, or 2^64 + x
\* for a negative x, which is the complement of -x - 1.
Uint64(x) ==
    IF x >= 0 THEN BytesOf(x, 8)
    ELSE [i \in 1..8 |-> 255 - BytesOf(0 - x - 1, 8)[i]]

\* The bytes k..8 of a + b, modulo 2^64.
RECURSIVE AddBytes(_, _, _, _)
AddBytes(a, b, k, carry) ==
    IF k > 8 THEN <<>>
    ELSE <<(a[k] + b[k] + carry) % 256>>
         \o AddBytes(a, b, k + 1, (a[k] + b[k] + carry) \div 256)

Add64(a, b) == AddBytes(a, b, 1, 0)

\* 2^64 - u, the negation in uint64_t.
Neg64(u) == Add64([i \in 1..8 |-> 255 - u[i]], Uint64(1))

\* a & b
And64(a, b) == [i \in 1..8 |-> BitAnd(a[i], b[i])]

\* temp >> 1
Shr64(u) ==
    [i \in 1..8 |-> (u[i] \div 2) + (IF i < 8 THEN (u[i + 1] % 2) * 128 ELSE 0)]

\* Bit j of u, j in 0..63.
Bit(u, j) == (u[(j \div 8) + 1] \div Pow2(j % 8)) % 2 = 1

\* u < 64
BelowSixtyFour(u) == u[1] < 64 /\ \A i \in 2..8 : u[i] = 0

\* The sum of a[i] * b[k + 1 - i] over i in 1..j: column k of the product.
RECURSIVE ColumnSum(_, _, _, _)
ColumnSum(a, b, k, j) ==
    IF j = 0 THEN 0 ELSE a[j] * b[k + 1 - j] + ColumnSum(a, b, k, j - 1)

\* The bytes k..8 of a * b: what passes the eighth byte is dropped, the
\* product is taken modulo 2^64.
RECURSIVE MulBytes(_, _, _, _)
MulBytes(a, b, k, carry) ==
    IF k > 8 THEN <<>>
    ELSE <<(ColumnSum(a, b, k, k) + carry) % 256>>
         \o MulBytes(a, b, k + 1, (ColumnSum(a, b, k, k) + carry) \div 256)

\* N *= base
Mul64(a, b) == MulBytes(a, b, 1, 0)

\* The uint64_t a run of digits denotes, when it fits 64 bits: acc is the
\* value of the digits read so far.  The test on acc has the value of a
\* digit computed before the next digit is read.
RECURSIVE DigitsLoop(_, _)
DigitsLoop(acc, ds) ==
    IF ds = <<>> \/ acc = <<>> THEN acc
    ELSE DigitsLoop(Add64(Mul64(acc, Uint64(10)), Uint64(DigitVal(Head(ds)))), Tail(ds))

BytesOfDigits(ds) == DigitsLoop(Uint64(0), ds)

\* The sign and the digits std::stoull reads in a text whose leading isspace
\* characters were skipped.
StoullSign(body) == body # <<>> /\ body[1] = "-"

StoullUnsigned(body) ==
    IF body # <<>> /\ body[1] \in {"-", "+"} THEN Tail(body) ELSE body

StoullDigits(rest) == StripZeros(SubSeq(rest, 1, DigitRun(rest)))

\* The uint64_t std::stoull(s) returns when it throws nothing (Stoull(s).ok),
\* with every digit kept: a minus sign negates the value modulo 2^64.
StoullValue(s) ==
    IF StoullSign(SkipSpace(s))
    THEN Neg64(BytesOfDigits(StoullDigits(StoullUnsigned(SkipSpace(s)))))
    ELSE BytesOfDigits(StoullDigits(StoullUnsigned(SkipSpace(s))))

\* while (temp > 1) { temp >>= 1; n++; }
RECURSIVE ShiftCount(_, _)
ShiftCount(temp, n) ==
    IF temp # Uint64(0) /\ temp # Uint64(1) THEN ShiftCount(Shr64(temp), n + 1) ELSE n

\* The number of rounds up to which the loop of parseN is followed round by
\* round.
LoopRounds == 64

\* for (i = 0; i < exp; i++) N *= base; acc and base are uint64_t values,
\* exp counts the rounds that are left.  The test on acc has the product of
\* a round computed before the next round starts.
RECURSIVE MulLoop(_, _, _)
MulLoop(acc, base, exp) ==
    IF exp = 0 \/ acc = <<>> THEN acc ELSE MulLoop(Mul64(acc, base), base, exp - 1)

\* The same loop for an exp of LoopRounds or more, up to 2^64 - 1: the rounds
\* are taken by the bits of exp, the 2^j rounds of bit j at once.  They
\* multiply N by base^(2^j), which is sq; the products are those of
\* uint64_t, where the order of the factors does not matter.
RECURSIVE MulRounds(_, _, _, _)
MulRounds(acc, sq, exp, j) ==
    IF j > 63 \/ acc = <<>> \/ sq = <<>> THEN acc
    ELSE MulRounds(IF Bit(exp, j) THEN Mul64(acc, sq) ELSE acc, Mul64(sq, sq), exp, j + 1)

\* uint64_t N = 1; for (i = 0; i < exp; i++) N *= base;
PowerLoop(base, exp) ==
    IF exp[1] < LoopRounds /\ \A i \in 2..8 : exp[i] = 0
    THEN MulLoop(Uint64(1), base, exp[1])
    ELSE MulRounds(Uint64(1), base, exp, 0)

\* The outcome of parseN: thrown for std::invalid_argument, else the pair
\* (N, n) of uint64_t values.
ParseNThrows == [called |-> TRUE, thrown |-> TRUE, N |-> Uint64(0), n |-> Uint64(0)]

\* return {N, n}
ParseNPair(bigN, smallN) == [called |-> TRUE, thrown |-> FALSE, N |-> bigN, n |-> smallN]

\* 1ULL << s for s in 0..63.
ShiftBytes(s) == [i \in 1..8 |-> IF i = (s \div 8) + 1 THEN Pow2(s % 8) ELSE 0]

\* 1ULL << exp.  For exp >= 64 the shift is undefined: with wraps the
\* machine uses exp modulo 64, without it the result is 0.
ShiftOne(exp, wraps) ==
    IF BelowSixtyFour(exp) THEN ShiftBytes(exp[1])
    ELSE IF wraps THEN ShiftBytes(exp[1] % 64)
    ELSE Uint64(0)

\* N > 0 && (N & (N - 1)) == 0
PowerOfTwoTest(u) == u # Uint64(0) /\ And64(u, Add64(u, Uint64(0 - 1))) = Uint64(0)

\* Direct number format, for the N stoull returned.
ParseDirectValue(u) ==
    IF PowerOfTwoTest(u) THEN ParseNPair(u, Uint64(ShiftCount(u, 0)))
    ELSE ParseNPair(u, Uint64(0))

\* N = stoull(str); an exception of it becomes std::invalid_argument.
ParseDirect(str) ==
    IF ~Stoull(str).ok THEN ParseNThrows ELSE ParseDirectValue(StoullValue(str))

\* The branches on base == 2, for the base and the exp stoull returned.
ParsePowerValue(b, e, wraps) ==
    IF b = Uint64(2) THEN ParseNPair(ShiftOne(e, wraps), e)
    ELSE ParseNPair(PowerLoop(b, e), Uint64(0))

\* base = stoull(base_str); exp = stoull(exp_str); an exception of either
\* falls through to the direct number format.
ParsePower(str, baseStr, expStr, wraps) ==
    IF ~Stoull(baseStr).ok \/ ~Stoull(expStr).ok THEN ParseDirect(str)
    ELSE ParsePowerValue(StoullValue(baseStr), StoullValue(expStr), wraps)

ParseNAt(str, caret, star, wraps) ==
    IF caret # 0
    THEN ParsePower(str, SubSeq(str, 1, caret - 1), SubSeq(str, caret + 1, Len(str)), wraps)
    ELSE IF star # 0
    THEN ParsePower(str, SubSeq(str, 1, star - 1), SubSeq(str, star + 2, Len(str)), wraps)
    ELSE ParseDirect(str)

parseN(str, wraps) == ParseNAt(str, Find(str, "^"), FindStars(str), wraps)

----------------------------------------------------------------------------
\* The sources of the model

\* The lines a source is made of: an empty line, a blank line, a line whose
\* first cell is empty, a number, a number on a CRLF line, a number above
\* 2^d - 1 (d <= 2), text, digits followed by text, and a negative number.
LineSet ==
    { <<>>,
      <<" ">>,
      <<",", "5">>,
      <<"1">>,
      <<"2", "\r">>,
      <<"7">>,
      <<"a", "b", "c">>,
      <<"3", "a", "b", "c">>,
      <<"-", "1">> }

RECURSIVE Join(_)
Join(ls) == IF ls = <<>> THEN <<>> ELSE Head(ls) \o <<"\n">> \o Join(Tail(ls))

LineSeqs == UNION {[1..n -> LineSet] : n \in 0..MaxLines}

\* Every line ends with "\n"; in the shorter sources the last one may not.
Files ==
    {Join(ls) : ls \in LineSeqs}
        \cup {SubSeq(Join(ls), 1, Len(Join(ls)) - 1) :
                 ls \in {x \in LineSeqs : 0 < Len(x) /\ Len(x) < MaxLines}}

\* The entries of a Parquet column: null, a value that is negative as INT64
\* and 2^64 - 1 as UINT64, and two small values.
ParquetEntries == {Null, Val(-1), Val(1), Val(2)}

ChunkSet == UNION {[1..n -> ParquetEntries] : n \in 1..MaxParquetRows}

ChunkLists ==
    {cl \in UNION {[1..m -> ChunkSet] : m \in 0..MaxParquetRows} :
        Len(Flatten(cl)) <= MaxParquetRows}

\* The chunks of a STRING column: its entries are texts, which no routine
\* reads; each is null or a text, held as Val(1).
TextChunkLists ==
    {cl \in ChunkLists :
        \A i \in 1..Len(Flatten(cl)) : Flatten(cl)[i] \in {Null, Val(1)}}

\* A table of two columns with the same number of rows: a key column "k" of
\* ones and the data column "v" of the given type and chunks.
TableOf(ty, cl) ==
    [cols |-> << [name |-> "k", type |-> "INT64",
                  chunks |-> IF cl = <<>> THEN <<>>
                             ELSE <<[i \in 1..Len(Flatten(cl)) |-> Val(1)]>>],
                 [name |-> "v", type |-> ty, chunks |-> cl] >>]

Tables ==
    {TableOf(ty, cl) : cl \in ChunkLists, ty \in {"INT64", "UINT64"}}
        \cup {TableOf("STRING", cl) : cl \in TextChunkLists}

NoTable == [cols |-> <<>>]

\* The paths of the ingestion runs: one of each format, a text file and a
\* path without extension.
MainPaths ==
    { <<"a", ".", "c", "s", "v">>,
      <<"a", ".", "p", "a", "r", "q", "u", "e", "t">>,
      <<"a", ".", "t", "x", "t">>,
      <<"c", "s", "v">> }

\* argv[1] of a run of main in random generation mode, in its two spellings.
GenerateFlag == <<"-", "-", "g", "e", "n", "e", "r", "a", "t", "e">>

GenerateShortFlag == <<"-", "g">>

\* argv[1] == "--generate" || argv[1] == "-g"
useRandomGeneration(arg) == arg = GenerateFlag \/ arg = GenerateShortFlag

\* argv[2] of such a run: plain numbers, powers written with ^ and with **,
\* of base 2 and of other bases, an exponent of 64, malformed text, powers
\* whose product passes 64 bits, and numbers, bases and exponents of ten
\* digits.
GenerateArgs ==
    { <<"8">>, <<"1", "6">>, <<"6">>, <<"1">>, <<"0">>,
      <<"2", "^", "3">>, <<"2", "*", "*", "3">>, <<"2", "^", "0">>,
      <<"4", "^", "2">>, <<"4", "*", "*", "2">>, <<"3", "^", "2">>,
      <<"2", "^", "6", "4">>, <<"2", "^", "x">>, <<"^", "3">>,
      <<"a", "b", "c">>, <<"2", "*", "3">>, <<"4", "^", "3", "2">>,
      <<"3", "^", "4", "1">>,
      <<"1", "0", "0", "0", "0", "0", "0", "0", "0", "0">>,
      <<"4", "2", "9", "4", "9", "6", "7", "2", "9", "6">>,
      <<"2", "^", "1", "0", "0", "0", "0", "0", "0", "0", "0", "0", "0">>,
      <<"4", "2", "9", "4", "9", "6", "7", "2", "9", "6", "^", "2">>,
      <<"1", "0", "0", "0", "0", "0", "0", "0", "0", "0", "0", "^", "0">> }

\* The paths detectFileFormat is tried on: a stem followed by an ending.
PathStems ==
    { <<>>,
      <<"a">>,
      <<"a", ".", "b">>,
      <<".">>,
      <<"d", ".", "c", "s", "v", "/", "f">>,
      <<"x", ".", "p", "a", "r", "q", "u", "e", "t">> }

PathEndings ==
    { <<>>,
      <<".", "c", "s", "v">>,
      <<".", "C", "S", "V">>,
      <<".", "C", "s", "v">>,
      <<".", "p", "a", "r", "q", "u", "e", "t">>,
      <<".", "P", "A", "R", "Q", "U", "E", "T">>,
      <<".", "P", "a", "r", "q", "u", "e", "t">>,
      <<".", "t", "x", "t">>,
      <<"c", "s", "v">>,
      <<"p", "a", "r", "q", "u", "e", "t">>,
      <<".", "c", "s", "v", "x">>,
      <<".", "c", "s">>,
      <<".", "c", "s", "v", ".">>,
      <<".", "c", "s", "v", ".", "b", "a", "k">>,
      <<".", "p", "a", "r", "q", "u", "e">>,
      <<".", "c", "s", "v", " ">> }

DetectPaths == {stem \o ending : stem \in PathStems, ending \in PathEndings}

----------------------------------------------------------------------------
\* State

NoValidation ==
    [valid |-> FALSE, kind |-> "none", row |-> 0, cell |-> <<>>, examined |-> 0,
     rows |-> 0]

\* buf names the allocation data points to: "none" for no memory, "facade"
\* for the buffer of the facade's Database, "loader" for a malloc made by a
\* loader, "engine" for the malloc of the hand-off, "caller" for a buffer the
\* caller of a loader allocated.
NoDatabase ==
    [N |-> 0, alloc |-> FALSE, isNull |-> TRUE, data |-> <<>>, buf |-> "none"]

\* The engine before a hand-off.  The N of the engine is a uint64_t value: in
\* random generation mode it is whatever parseN returned.
NoEngine ==
    [N |-> Uint64(0), alloc |-> FALSE, isNull |-> TRUE, data |-> <<>>, buf |-> "none"]

\* main before it has printed anything.
NoParse == [called |-> FALSE, thrown |-> FALSE, N |-> Uint64(0), n |-> Uint64(0)]

\* checked: the bound test on queryIndex was made; calls: which of
\* pir.Query, pir.Answer and pir.Recover were called.
NoRun ==
    [stats |-> NoStats, arg |-> <<>>, gen |-> NoParse,
     checked |-> FALSE, queryIndex |-> 0, canVerify |-> FALSE, expected |-> 0,
     calls |-> {}, result |-> 0]

NoLoad ==
    [called |-> FALSE, ret |-> FALSE, opened |-> FALSE, index |-> 0, clamped |-> {}]

InitCSV ==
    /\ kind = "csv"
    /\ \/ readable = TRUE /\ file \in Files
       \/ readable = FALSE /\ file = <<>>
    /\ hasHeader \in BOOLEAN
    /\ table = NoTable
    /\ columnName = ""
    /\ parquet = TRUE

InitParquet ==
    /\ kind = "parquet"
    /\ table \in Tables
    /\ columnName \in {"", "v", "zz"}
    /\ readable \in BOOLEAN
    /\ parquet \in BOOLEAN
    /\ file = <<>>
    /\ hasHeader = TRUE

\* A path of neither format: nothing of the source is ever read.
InitUnknown ==
    /\ kind = "unknown"
    /\ readable \in BOOLEAN
    /\ parquet \in BOOLEAN
    /\ file = <<>>
    /\ table = NoTable
    /\ columnName = ""
    /\ hasHeader = TRUE

\* pc = "start": a routine of the library is about to be called; pc = "main":
\* main, with its d = 1, is about to run on a path of neither format.  The
\* runs of main on the other paths are those of SpecMain.
Init ==
    /\ path \in MainPaths
    /\ kind = detectFileFormat(path)
    /\ InitCSV \/ InitParquet \/ InitUnknown
    /\ d \in 1..MaxD
    /\ \/ pc = "start"
       \/ pc = "main" /\ kind = "unknown" /\ d = 1
    /\ N = 0
    /\ vres = NoValidation
    /\ db = NoDatabase
    /\ maxRows = 0
    /\ lres = NoLoad
    /\ pir = NoEngine
    /\ run = NoRun

\* What a call of loadDatabaseFromCSV leaves to observe.
LoadResult(r) ==
    [called |-> TRUE, ret |-> r.ret, opened |-> r.opened, index |-> r.index,
     clamped |-> r.clamped]

\* The same for loadDatabaseFromParquet; opened is FALSE when the process was
\* killed in the call.
ParquetLoadResult(r) ==
    [called |-> TRUE, ret |-> r.ret, opened |-> ~r.crashed, index |-> r.index,
     clamped |-> {}]

\* Database(N, d): a buffer of N entries, zero-initialised; its malloc may fail.
Database(n, ok) ==
    [N |-> n, alloc |-> TRUE, isNull |-> ~ok, data |-> IF ok THEN Zeroed(n) ELSE <<>>,
     buf |-> IF ok THEN "facade" ELSE "none"]

----------------------------------------------------------------------------
\* main, file mode: the statistics printed before the ingestion

\* main runs with d = 1 and passes hasHeader = true.
MainConfiguration == d = 1 /\ hasHeader

\* if (format == PARQUET) printParquetStats(dataFile, d, columnName);
\* else printCSVStats(dataFile, d, true);
MainStats ==
    /\ kind \in {"csv", "parquet"} /\ MainConfiguration
    /\ pc = "main"
    /\ run' = [run EXCEPT !.stats =
                  IF kind = "csv" THEN printCSVStats(file, readable, d, TRUE)
                  ELSE printParquetStats(table, readable, parquet, d, columnName)]
    /\ pc' = "m_stats"
    /\ UNCHANGED <<source, N, vres, db, maxRows, lres, pir>>

\* Where a facade is entered: called directly (start), or by main, which
\* calls it once the statistics are printed (m_stats).
AtEntry == pc \in {"start", "m_stats"}

----------------------------------------------------------------------------
\* createVLHEPIRFromCSV (and createPIRFromCSV), one action per step

\* A facade that goes on with a count of 0.
FacadeCountGoesOn ==
    /\ kind = "csv"
    /\ AtEntry
    /\ N' = countCSVLines(file, readable, hasHeader)
    /\ pc' = "f_counted"
    /\ UNCHANGED <<source, vres, db, maxRows, lres, pir, run>>

\* 1. N = countCSVLines(...); exit(1) when N == 0
FacadeCount ==
    /\ kind = "csv"
    /\ AtEntry
    /\ N' = countCSVLines(file, readable, hasHeader)
    /\ pc' = IF N' = 0 THEN "exit1" ELSE "f_counted"
    /\ UNCHANGED <<source, vres, db, maxRows, lres, pir, run>>

\* A facade that takes the validation as advisory.
FacadeValidateAdvisory ==
    /\ pc = "f_counted"
    /\ vres' = validateColumnForD(file, readable, d, hasHeader)
    /\ pc' = "f_validated"
    /\ UNCHANGED <<source, N, db, maxRows, lres, pir, run>>

\* 2. exit(1) unless validateColumnForD(...)
FacadeValidate ==
    /\ pc = "f_counted"
    /\ vres' = validateColumnForD(file, readable, d, hasHeader)
    /\ pc' = IF vres'.valid THEN "f_validated" ELSE "exit1"
    /\ UNCHANGED <<source, N, db, maxRows, lres, pir, run>>

\* 3. Database db(N, d)
FacadeAlloc ==
    /\ pc = "f_validated"
    /\ \E ok \in BOOLEAN : db' = Database(N, ok)
    /\ pc' = "f_allocated"
    /\ UNCHANGED <<source, N, vres, maxRows, lres, pir, run>>

\* 4. exit(1) unless loadDatabaseFromCSV(db, csvFilePath, d, hasHeader)
FacadeLoad ==
    /\ pc = "f_allocated"
    /\ LET r == loadDatabaseFromCSV(db, TRUE, NoMalloc, file, readable, d, hasHeader, 0)
       IN  /\ db' = r.db
           /\ lres' = LoadResult(r)
           /\ pc' = IF lres'.ret THEN "f_loaded" ELSE "exit1"
    /\ maxRows' = 0
    /\ UNCHANGED <<source, N, vres, pir, run>>

\* 5-6. VLHEPIR pir(N, d, ...); pir.db.data = malloc(N entries);
\*      memcpy(pir.db.data, db.data, N entries).  When the malloc fails the
\*      memcpy writes through a null pointer and the process is killed.
FacadeHandOff ==
    /\ pc = "f_loaded"
    /\ \E ok \in BOOLEAN :
          IF ok
          THEN /\ pir' = [N |-> Uint64(N), alloc |-> TRUE, isNull |-> FALSE,
                          data |-> [i \in 1..N |-> db.data[i]], buf |-> "engine"]
               /\ pc' = "f_handed"
          ELSE /\ pir' = pir
               /\ pc' = "crashed"
    /\ UNCHANGED <<source, N, vres, db, maxRows, lres, run>>

----------------------------------------------------------------------------
\* createVLHEPIRFromParquet, one action per step

\* Without PARQUET_SUPPORT the function is a stub that calls exit(1).
ParquetStub ==
    /\ kind = "parquet" /\ ~parquet
    /\ AtEntry
    /\ pc' = "exit1"
    /\ UNCHANGED <<source, N, vres, db, maxRows, lres, pir, run>>

\* N = countParquetLines(...); exit(1) when N == 0
ParquetCount ==
    /\ kind = "parquet" /\ parquet
    /\ AtEntry
    /\ N' = countParquetLines(table, readable)
    /\ pc' = IF N' = 0 THEN "exit1" ELSE "p_counted"
    /\ UNCHANGED <<source, vres, db, maxRows, lres, pir, run>>

\* exit(1) unless validateParquetColumnForD(...)
ParquetValidate ==
    /\ pc = "p_counted"
    /\ LET v == validateParquetColumnForD(table, readable, d, columnName)
       IN  /\ vres' = [NoValidation EXCEPT !.valid = v, !.kind = "parquet"]
           /\ pc' = IF v THEN "p_validated" ELSE "exit1"
    /\ UNCHANGED <<source, N, db, maxRows, lres, pir, run>>

\* Database db(N, d)
ParquetAlloc ==
    /\ pc = "p_validated"
    /\ \E ok \in BOOLEAN : db' = Database(N, ok)
    /\ pc' = "p_allocated"
    /\ UNCHANGED <<source, N, vres, maxRows, lres, pir, run>>

\* exit(1) unless loadDatabaseFromParquet(db, parquetFilePath, d, columnName)
ParquetLoad ==
    /\ pc = "p_allocated"
    /\ LET r == loadDatabaseFromParquet(db, TRUE, NoMalloc, table, readable, d,
                                        columnName, 0)
       IN  /\ db' = r.db
           /\ lres' = ParquetLoadResult(r)
           /\ pc' = IF ~lres'.opened THEN "crashed"
                    ELSE IF lres'.ret THEN "p_loaded" ELSE "exit1"
    /\ maxRows' = 0
    /\ UNCHANGED <<source, N, vres, pir, run>>

\* VLHEPIR pir(N, d, ...); pir.db.data = malloc(N entries); memcpy of N entries
ParquetHandOff ==
    /\ pc = "p_loaded"
    /\ \E ok \in BOOLEAN :
          IF ok
          THEN /\ pir' = [N |-> Uint64(N), alloc |-> TRUE, isNull |-> FALSE,
                          data |-> [i \in 1..N |-> db.data[i]], buf |-> "engine"]
               /\ pc' = "p_handed"
          ELSE /\ pir' = pir
               /\ pc' = "crashed"
    /\ UNCHANGED <<source, N, vres, db, maxRows, lres, run>>

----------------------------------------------------------------------------
\* The format dispatch

\* createVLHEPIRFromFile, default branch of the switch: exit(1).  The other
\* two branches are the guards on kind of the two facades.
FileUnknown ==
    /\ kind = "unknown"
    /\ pc = "start"
    /\ pc' = "exit1"
    /\ UNCHANGED <<source, N, vres, db, maxRows, lres, pir, run>>

\* main: if (format == FileFormat::UNKNOWN) return 1, with main's d = 1.
MainUnknown ==
    /\ kind = "unknown" /\ d = 1
    /\ pc = "main"
    /\ pc' = "return1"
    /\ UNCHANGED <<source, N, vres, db, maxRows, lres, pir, run>>

----------------------------------------------------------------------------
\* The three routines called directly, one after the other, by a caller that
\* does not stop on their results and chooses the Database and the row cap.

CallCount ==
    /\ kind = "csv"
    /\ pc = "start"
    /\ N' = countCSVLines(file, readable, hasHeader)
    /\ pc' = "a_counted"
    /\ UNCHANGED <<source, vres, db, maxRows, lres, pir, run>>

CallValidate ==
    /\ pc = "a_counted"
    /\ vres' = validateColumnForD(file, readable, d, hasHeader)
    /\ pc' = "a_validated"
    /\ UNCHANGED <<source, N, db, maxRows, lres, pir, run>>

\* The Database a caller passes: n entries wanted, nothing allocated yet.
CallerDatabase(n) ==
    [N |-> n, alloc |-> FALSE, isNull |-> TRUE, data |-> <<>>, buf |-> "none"]

\* The Database has no room, room for MaxN rows, or for one less.  The
\* buffer the call allocates holds whatever the heap held; the memset that
\* follows overwrites every entry of it.
CallLoad ==
    /\ pc = "a_validated"
    /\ \E n \in {0, MaxN - 1, MaxN}, cap \in {0, MaxCap} :
          /\ \E garbage \in UniformGarbage(n, d) :
                LET r == loadDatabaseFromCSV(CallerDatabase(n), TRUE, garbage,
                                             file, readable, d, hasHeader, cap)
                IN  /\ db' = r.db
                    /\ lres' = LoadResult(r)
          /\ maxRows' = cap
    /\ pc' = "a_loaded"
    /\ UNCHANGED <<source, N, vres, pir, run>>

\* The same call, with the default row cap, when the malloc it makes fails.
CallLoadNoMemory ==
    /\ pc = "a_validated"
    /\ \E n \in {0, MaxN} :
          LET r == loadDatabaseFromCSV(CallerDatabase(n), FALSE, NoMalloc,
                                       file, readable, d, hasHeader, 0)
          IN  /\ db' = r.db
              /\ lres' = LoadResult(r)
    /\ maxRows' = 0
    /\ pc' = "a_loaded"
    /\ UNCHANGED <<source, N, vres, pir, run>>

\* loadDatabaseFromParquet called directly, without a validation before it,
\* on a Database sized by the row count and not yet allocated.  The buffer
\* it allocates holds whatever the heap held.
ParquetHeapsOf(t, c, n, dd) ==
    IF c = 0 THEN {NoMalloc}
    ELSE IF t.cols[c].type \in {"INT64", "UINT64"} THEN UniformGarbage(n, dd)
    ELSE Garbage(n, dd)

\* What the memory of the malloc of such a call may hold.  No malloc is made
\* when the file cannot be read or the column is missing; the loops
\* overwrite every entry of the buffer when the column is INT64 or UINT64.
ParquetHeaps(t, rd, name, n, dd) ==
    IF ~rd THEN {NoMalloc}
    ELSE ParquetHeapsOf(t, GetColumnByName(t, ColName(t, name)), n, dd)

CallParquetLoad ==
    /\ kind = "parquet" /\ parquet
    /\ pc = "start"
    /\ \E cap \in {0, MaxCap} :
          /\ \E garbage \in ParquetHeaps(table, readable, columnName,
                                         ParquetN(table, cap), d) :
                LET r == loadDatabaseFromParquet(CallerDatabase(NumRows(table)), TRUE,
                                                 garbage, table, readable, d,
                                                 columnName, cap)
                IN  /\ db' = r.db
                    /\ lres' = ParquetLoadResult(r)
          /\ maxRows' = cap
    /\ pc' = "pa_loaded"
    /\ UNCHANGED <<source, N, vres, pir, run>>

\* validateParquetColumnForD called directly, on any table.
CallParquetValidate ==
    /\ kind = "parquet" /\ parquet
    /\ pc = "start"
    /\ vres' = [NoValidation EXCEPT
                   !.valid = validateParquetColumnForD(table, readable, d, columnName),
                   !.kind = "parquet"]
    /\ pc' = "pa_validated"
    /\ UNCHANGED <<source, N, db, maxRows, lres, pir, run>>

Next ==
    \/ FacadeCount
    \/ FacadeValidate
    \/ FacadeAlloc
    \/ FacadeLoad
    \/ FacadeHandOff
    \/ ParquetStub
    \/ ParquetCount
    \/ ParquetValidate
    \/ ParquetAlloc
    \/ ParquetLoad
    \/ ParquetHandOff
    \/ FileUnknown
    \/ MainUnknown
    \/ CallCount
    \/ CallValidate
    \/ CallLoad
    \/ CallLoadNoMemory
    \/ CallParquetLoad
    \/ CallParquetValidate

Spec == Init /\ [][Next]_vars

----------------------------------------------------------------------------
\* detectFileFormat on its own, applied to each path of DetectPaths

InitDetect ==
    /\ path \in DetectPaths
    /\ kind = "none"
    /\ file = <<>>
    /\ table = NoTable
    /\ columnName = ""
    /\ parquet = TRUE
    /\ readable = FALSE
    /\ d = 1
    /\ hasHeader = TRUE
    /\ pc = "start"
    /\ N = 0
    /\ vres = NoValidation
    /\ db = NoDatabase
    /\ maxRows = 0
    /\ lres = NoLoad
    /\ pir = NoEngine
    /\ run = NoRun

Detect ==
    /\ pc = "start"
    /\ kind' = detectFileFormat(path)
    /\ pc' = "detected"
    /\ UNCHANGED <<path, file, table, columnName, parquet, readable, d, hasHeader,
                   N, vres, db, maxRows, lres, pir, run>>

NextDetect == Detect

SpecDetect == InitDetect /\ [][NextDetect]_vars

----------------------------------------------------------------------------
\* main: a run in file mode (statistics, then createVLHEPIRFromFile) or in
\* random generation mode (parseN, then createVLHEPIRFromRandomData)

InitMain ==
    /\ \/ /\ path \in MainPaths
          /\ kind = detectFileFormat(path)
          /\ InitCSV \/ InitParquet \/ InitUnknown
          /\ MainConfiguration
       \/ /\ path \in {GenerateFlag, GenerateShortFlag}
          /\ kind = "none"
          /\ file = <<>>
          /\ table = NoTable
          /\ columnName = ""
          /\ parquet = TRUE
          /\ readable = FALSE
          /\ hasHeader = TRUE
          /\ d \in 1..MaxD
    /\ pc = "main"
    /\ N = 0
    /\ vres = NoValidation
    /\ db = NoDatabase
    /\ maxRows = 0
    /\ lres = NoLoad
    /\ pir = NoEngine
    /\ run = NoRun

\* auto result = parseN(argv[2]); an exception makes main return 1.
MainGenerate ==
    /\ useRandomGeneration(path)
    /\ pc = "main"
    /\ \E arg \in GenerateArgs, wraps \in BOOLEAN :
          run' = [run EXCEPT !.arg = arg, !.gen = parseN(arg, wraps)]
    /\ pc' = IF run'.gen.thrown THEN "return1" ELSE "g_parsed"
    /\ UNCHANGED <<source, N, vres, db, maxRows, lres, pir>>

\* createVLHEPIRFromRandomData(N, d_value, ...): an engine of N entries
\* whose Database is not allocated.
RandomDatabase(n) ==
    [N |-> n, alloc |-> FALSE, isNull |-> TRUE, data |-> <<>>, buf |-> "none"]

MainCreateRandom ==
    /\ pc = "g_parsed"
    /\ pir' = RandomDatabase(run.gen.N)
    /\ pc' = "g_created"
    /\ UNCHANGED <<source, N, vres, db, maxRows, lres, run>>

\* argv[2] (file mode) or argv[4] (random generation) read by std::stoull:
\* the indices up to MaxN + 1, and "-1", which stoull turns into 2^64 - 1.
\* The index is read when main starts and first used by the bound test.
QueryIndices == (0..(MaxN + 1)) \cup {UllMax}

\* pir.db.getDataAtIndex(queryIndex)
GetDataAtIndex(database, q) ==
    IF 0 <= q /\ q < Len(database.data) THEN database.data[q + 1] ELSE 0

\* A bound test that lets every index through.
QueryInBoundsAlways(q, n) == TRUE

\* a < b on uint64_t values held as bytes: the most significant byte in
\* which they differ decides.
ULess64(a, b) ==
    \E i \in 1..8 : a[i] < b[i] /\ \A j \in (i + 1)..8 : a[j] = b[j]

\* !(queryIndex >= pir.N); q is the integer that stands for queryIndex.
QueryInBounds(q, n) == ULess64(Uint64(q), n)

\* The database is packed, A and the hint are made and hashed; then
\* if (queryIndex >= pir.N) return 1; and the expected value is read when
\* the run is in file mode and pir.db is allocated.
MainQueryCheck ==
    /\ pc \in {"f_handed", "p_handed", "g_created"}
    /\ \E q \in QueryIndices :
          /\ run' = [run EXCEPT
                        !.checked = TRUE,
                        !.queryIndex = q,
                        !.canVerify = QueryInBounds(q, pir.N) /\ ~useRandomGeneration(path)
                                         /\ pir.alloc,
                        !.expected = IF QueryInBounds(q, pir.N) /\ ~useRandomGeneration(path)
                                         /\ pir.alloc
                                      THEN GetDataAtIndex(pir, q) ELSE 0]
          /\ pc' = IF QueryInBounds(q, pir.N) THEN "m_checked" ELSE "return1"
    /\ UNCHANGED <<source, N, vres, db, maxRows, lres, pir>>

\* auto ct_sk = pir.Query(A, queryIndex); and the timed repetitions
MainQuery ==
    /\ pc = "m_checked"
    /\ run' = [run EXCEPT !.calls = @ \cup {"Query"}]
    /\ pc' = "m_queried"
    /\ UNCHANGED <<source, N, vres, db, maxRows, lres, pir>>

\* Matrix ans = pir.Answer(ct, D_packed); and the timed repetitions
MainAnswer ==
    /\ pc = "m_queried"
    /\ run' = [run EXCEPT !.calls = @ \cup {"Answer"}]
    /\ pc' = "m_answered"
    /\ UNCHANGED <<source, N, vres, db, maxRows, lres, pir>>

\* result = pir.Recover(H, ans, sk, queryIndex): whatever entry of d bits the
\* engine recovers; then return 1 when the run can verify and the result is
\* not the expected value, return 0 otherwise.
MainRecover ==
    /\ pc = "m_answered"
    /\ \E r \in 0..(Pow2(d) - 1) :
          run' = [run EXCEPT !.calls = @ \cup {"Recover"}, !.result = r]
    /\ pc' = IF run'.canVerify /\ run'.result # run'.expected THEN "return1"
             ELSE "return0"
    /\ UNCHANGED <<source, N, vres, db, maxRows, lres, pir>>

NextMain ==
    \/ MainUnknown
    \/ MainStats
    \/ FacadeCount
    \/ FacadeValidate
    \/ FacadeAlloc
    \/ FacadeLoad
    \/ FacadeHandOff
    \/ ParquetStub
    \/ ParquetCount
    \/ ParquetValidate
    \/ ParquetAlloc
    \/ ParquetLoad
    \/ ParquetHandOff
    \/ MainGenerate
    \/ MainCreateRandom
    \/ MainQueryCheck
    \/ MainQuery
    \/ MainAnswer
    \/ MainRecover

SpecMain == InitMain /\ [][NextMain]_vars

----------------------------------------------------------------------------
\* The two loaders called on a Database the caller has already allocated,
\* whose buffer holds what an earlier use left in it

\* The lines of the sources of these calls.
BufferLineSet == { <<>>, <<" ">>, <<"1">>, <<"7">>, TwoPow64Digits }

BufferFiles == {Join(ls) : ls \in UNION {[1..n -> BufferLineSet] : n \in 0..MaxLines}}

\* What the buffer holds before the call: zeros, or the largest entry in
\* every place.
PriorContents(n, dd) == {Zeroed(n), [i \in 1..n |-> Pow2(dd) - 1]}

AllocatedDatabase(n, content) ==
    [N |-> n, alloc |-> TRUE, isNull |-> FALSE, data |-> content, buf |-> "caller"]

InitBuffer ==
    /\ \/ /\ path = <<"a", ".", "c", "s", "v">>
          /\ file \in BufferFiles
          /\ hasHeader \in BOOLEAN
          /\ table = NoTable
          /\ columnName = ""
       \/ /\ path = <<"a", ".", "p", "a", "r", "q", "u", "e", "t">>
          /\ table \in Tables
          /\ columnName \in {"", "v"}
          /\ file = <<>>
          /\ hasHeader = TRUE
    /\ kind = detectFileFormat(path)
    /\ readable = TRUE
    /\ parquet = TRUE
    /\ d \in 1..MaxD
    /\ pc = "start"
    /\ N = 0
    /\ vres = NoValidation
    /\ db = NoDatabase
    /\ maxRows = 0
    /\ lres = NoLoad
    /\ pir = NoEngine
    /\ run = NoRun

\* validateColumnForD called before the load.
CallValidateFirst ==
    /\ kind = "csv"
    /\ pc = "start"
    /\ vres' = validateColumnForD(file, readable, d, hasHeader)
    /\ pc' = "b_validated"
    /\ UNCHANGED <<source, N, db, maxRows, lres, pir, run>>

CallLoadInto ==
    /\ kind = "csv"
    /\ pc \in {"start", "b_validated"}
    /\ \E n \in 0..MaxN, cap \in {0, MaxCap} :
          /\ \E content \in PriorContents(n, d) :
                LET r == loadDatabaseFromCSV(AllocatedDatabase(n, content), TRUE,
                                             NoMalloc, file, readable, d, hasHeader,
                                             cap)
                IN  /\ db' = r.db
                    /\ lres' = LoadResult(r)
          /\ maxRows' = cap
    /\ pc' = "b_loaded"
    /\ UNCHANGED <<source, N, vres, pir, run>>

\* How the call ends when the loop has written past the end of the buffer:
\* the process is killed, or the call returns with the memory after the
\* buffer overwritten.
OverflowOutcomes(r) ==
    IF r.index > r.db.N /\ ~r.db.isNull
    THEN {r, [r EXCEPT !.ret = FALSE, !.crashed = TRUE]}
    ELSE {r}

CallParquetLoadInto ==
    /\ kind = "parquet"
    /\ pc = "start"
    /\ \E n \in 0..MaxN, cap \in {0, MaxCap} :
          /\ \E content \in PriorContents(n, d) :
                \E r \in OverflowOutcomes(
                            loadDatabaseFromParquet(AllocatedDatabase(n, content), TRUE,
                                                    NoMalloc, table, readable, d,
                                                    columnName, cap)) :
                    /\ db' = r.db
                    /\ lres' = ParquetLoadResult(r)
          /\ maxRows' = cap
    /\ pc' = IF lres'.opened THEN "b_loaded" ELSE "crashed"
    /\ UNCHANGED <<source, N, vres, pir, run>>

NextBuffer ==
    \/ CallValidateFirst
    \/ CallLoadInto
    \/ CallParquetLoadInto

SpecBuffer == InitBuffer /\ [][NextBuffer]_vars

----------------------------------------------------------------------------
\* Notions the properties are stated with

\* The lines after the header, as the three routines read them.
Rows == SkipHeader(GetLines(file), hasHeader)

\* The rows of the loader and of the validator: the lines that are not empty.
NonEmptyRows == SelectSeq(Rows, LAMBDA l : l # <<>>)

\* The first cell of a line, trimmed.
CellOf(line) == Trim(FirstCell(line).cell)

MaxValue == Pow2(d) - 1

\* A non-negative integer literal: digits and nothing else.
IsNatLiteral(c) == c # <<>> /\ \A i \in 1..Len(c) : IsDigit(c[i])

\* The cell is text that stoull accepts, with a value above 2^d - 1.
ParsesAbove(c) == c # <<>> /\ Stoull(c).ok /\ Exceeds(Stoull(c), MaxValue)

\* The cell is empty after trimming or stoull rejects it.
EmptyOrUnparsed(c) == c = <<>> \/ ~Stoull(c).ok

\* The cell is empty after trimming or text that stoull accepts with a value
\* of at most 2^d - 1.
Acceptable(c) == c = <<>> \/ (Stoull(c).ok /\ ~Exceeds(Stoull(c), MaxValue))

Min(a, b) == IF a < b THEN a ELSE b

\* The number of rows a load of n entries under the cap can take.
RowsTaken(n, cap) ==
    Min(Len(NonEmptyRows), IF cap = 0 THEN n ELSE Min(n, cap))

\* countCSVLines, validateColumnForD, loadDatabaseFromCSV has returned; the
\* last one got as far as reading the file.
Counted == kind = "csv" /\ pc \notin {"start", "main", "m_stats"}
Validated == kind = "csv" /\ vres.kind # "none"
Loaded == kind = "csv" /\ lres.called
Opened == kind = "csv" /\ lres.opened

\* The value RowCounter returns for the source.
RowCount ==
    IF kind = "csv" THEN countCSVLines(file, readable, hasHeader)
    ELSE countParquetLines(table, readable)

\* The facade has handed pir to the engine.
Handed == pc \in {"f_handed", "p_handed"}

----------------------------------------------------------------------------
\* C1: whenever the facade hands a buffer to the engine, whatever the source
\* and the bit width, the buffer has exactly N entries, N being the value the
\* row counter returned, and every entry is in [0, 2^d - 1].
C1_HandedBufferInRange ==
    Handed =>
        /\ pir.N = Uint64(RowCount)
        /\ ~pir.isNull
        /\ Len(pir.data) = RowCount
        /\ \A i \in 1..Len(pir.data) : 0 <= pir.data[i] /\ pir.data[i] < Pow2(d)

\* A Parquet column of two chunks, a null and the value 2, handed over with
\* d = 2 as [0, 2].
C1_Witness ==
    /\ pc = "p_handed" /\ d = 2
    /\ Len(table.cols[2].chunks) = 2
    /\ columnName = "v"
    /\ pir.data = <<0, 2>>

----------------------------------------------------------------------------
\* C2: after loadDatabaseFromCSV returns, whatever the file content, the bit
\* width, the header flag and the row cap, the buffer holds db.N entries and
\* every one of them is in [0, 2^d - 1].
C2_EntriesInRange ==
    (Loaded /\ ~db.isNull) =>
        /\ Len(db.data) = db.N
        /\ \A i \in 1..db.N : 0 <= db.data[i] /\ db.data[i] < Pow2(d)

\* A load that clamped one row, substituted 0 for another and left the end of
\* the buffer unwritten.
C2_Witness ==
    /\ pc = "a_loaded"
    /\ lres.clamped # {}
    /\ lres.index < db.N
    /\ \E k \in 1..lres.index : EmptyOrUnparsed(CellOf(NonEmptyRows[k]))

\* C3: with hasHeader = true countCSVLines drops the first line whatever it
\* holds, also when it is the only line, and returns the number of later
\* lines holding a character other than space, tab, CR and LF.  The lines are
\* read off the text itself: a counted line is found at its first character
\* outside the whitespace set, which lies after the first "\n".
C3_CountAfterHeader ==
    (Counted /\ readable /\ hasHeader) =>
        N = Cardinality({p \in 1..Len(file) :
                /\ Find(file, "\n") # 0
                /\ p > Find(file, "\n")
                /\ file[p] \notin Whitespace
                /\ \A q \in 1..(p - 1) :
                      (\A r \in q..(p - 1) : file[r] # "\n") => file[q] \in Whitespace})

\* A header that would count as a row, then a blank line and one counted row.
C3_Witness ==
    /\ Counted /\ readable /\ hasHeader
    /\ Len(GetLines(file)) = 3
    /\ CountsLine(GetLines(file)[1])
    /\ \E i \in 2..3 : GetLines(file)[i] = <<" ">>
    /\ N = 1

\* C4: for a readable source validateColumnForD returns true exactly when
\* every data row has a trimmed first cell that is empty or parses to a value
\* of at most 2^d - 1.
C4_ValidIffAllAcceptable ==
    (Validated /\ readable) =>
        (vres.valid <=> \A i \in 1..Len(Rows) : Acceptable(CellOf(Rows[i])))

\* A valid source with an empty cell and a cell equal to 2^d - 1.
C4_Witness ==
    /\ Validated /\ readable /\ vres.valid
    /\ \E i \in 1..Len(Rows) : Rows[i] # <<>> /\ CellOf(Rows[i]) = <<>>
    /\ \E i \in 1..Len(Rows) :
          /\ IsNatLiteral(CellOf(Rows[i]))
          /\ Stoull(CellOf(Rows[i])).value = MaxValue

\* C5: in validateColumnForD a trimmed cell that is not empty and is not a
\* non-negative integer literal (a leading minus sign, digits followed by
\* other characters) makes the result false.
C5_NonLiteralCellIsInvalid ==
    (Validated /\ readable
        /\ \E i \in 1..Len(Rows) :
              CellOf(Rows[i]) # <<>> /\ ~IsNatLiteral(CellOf(Rows[i])))
    => ~vres.valid

\* The position in Rows of the first row validateColumnForD rejects, 0 when
\* there is none.
FirstRejected ==
    IF \E i \in 1..Len(Rows) : ~Acceptable(CellOf(Rows[i]))
    THEN CHOOSE i \in 1..Len(Rows) :
            /\ ~Acceptable(CellOf(Rows[i]))
            /\ \A j \in 1..(i - 1) : Acceptable(CellOf(Rows[j]))
    ELSE 0

\* C6: validateColumnForD stops at the first invalid data row: it reports the
\* 1-based index that row has among the data rows countCSVLines counts, with
\* the offending cell, and reads no line after it.
C6_ReportsCountedRowIndex ==
    (Validated /\ readable /\ ~vres.valid) =>
        /\ vres.row = Cardinality({j \in 1..FirstRejected : CountsLine(Rows[j])})
        /\ vres.cell = CellOf(Rows[FirstRejected])
        /\ vres.examined = FirstRejected

\* C7: in loadDatabaseFromCSV a row whose cell parses to a value above
\* 2^d - 1 is stored as 2^d - 1 at the index of that row, and the load goes
\* on with the next row: the index ends at the number of rows the buffer and
\* the cap admit.  A row of the loader is a line that is not empty.
C7_ClampStoresMaxValue ==
    Opened =>
        /\ lres.index = RowsTaken(db.N, maxRows)
        /\ \A k \in 1..lres.index :
              ParsesAbove(CellOf(NonEmptyRows[k])) => db.data[k] = MaxValue

\* Header, then rows "1" and "7" with d = 2: the validator rejects row 2 and
\* the loader produces [1, 3].
C7_Witness ==
    /\ pc = "a_loaded" /\ hasHeader /\ d = 2 /\ maxRows = 0
    /\ Len(Rows) = 2 /\ Rows[1] = <<"1">> /\ Rows[2] = <<"7">>
    /\ ~vres.valid /\ vres.row = 2 /\ vres.kind = "toolarge"
    /\ db.N = 2 /\ db.data = <<1, 3>>

\* C8: in loadDatabaseFromCSV a row whose cell is empty after trimming or
\* fails to parse stores 0 at the index of that row, the index still advances
\* by one and the load returns success.
C8_EmptyOrUnparsedStoresZero ==
    Opened =>
        /\ lres.ret
        /\ lres.index = RowsTaken(db.N, maxRows)
        /\ \A k \in 1..lres.index :
              EmptyOrUnparsed(CellOf(NonEmptyRows[k])) => db.data[k] = 0

\* Header, then rows "2" (CRLF) and "abc" with d = 2: the validator rejects
\* row 2 and the loader produces [2, 0].
C8_Witness ==
    /\ pc = "a_loaded" /\ hasHeader /\ d = 2 /\ maxRows = 0
    /\ Len(Rows) = 2 /\ Rows[1] = <<"2", "\r">> /\ Rows[2] = <<"a", "b", "c">>
    /\ ~vres.valid /\ vres.row = 2 /\ vres.kind = "nonnumeric"
    /\ lres.ret /\ lres.index = 2
    /\ db.N = 2 /\ db.data = <<2, 0>>

\* C9: when every data row of the source is a well-formed integer in
\* [0, 2^d - 1], the buffer has as many entries as there are data rows and the
\* row cap is 0, loadDatabaseFromCSV fills every entry and entry i is the
\* number written in the i-th data row.  The data rows are the lines after
\* the header that are not empty.
C9_WellFormedRowsLoadInOrder ==
    (/\ Opened
     /\ maxRows = 0
     /\ db.N = Len(NonEmptyRows)
     /\ \A k \in 1..Len(NonEmptyRows) :
           /\ IsNatLiteral(CellOf(NonEmptyRows[k]))
           /\ DecValue(CellOf(NonEmptyRows[k])) <= MaxValue)
    => /\ lres.index = db.N
       /\ \A k \in 1..db.N : db.data[k] = DecValue(CellOf(NonEmptyRows[k]))

\* Three rows "1", "2", "1" with d = 2 load as [1, 2, 1].
C9_Witness ==
    /\ Opened /\ maxRows = 0 /\ d = 2
    /\ db.N = 3 /\ Len(NonEmptyRows) = 3
    /\ db.data = <<1, 2, 1>>

\* C10: if validateColumnForD returned true, loadDatabaseFromCSV on the same
\* source, bit width and header flag takes its clamp branch for no row,
\* whatever the buffer length and the row cap.
C10_ValidSourceNeverClamps ==
    (Validated /\ vres.valid /\ Loaded) => lres.clamped = {}

\* A valid source with two rows equal to 2^d - 1, loaded under a row cap.
C10_Witness ==
    /\ pc = "a_loaded" /\ vres.valid /\ lres.opened
    /\ maxRows = 1 /\ db.N = 2 /\ lres.index = 1
    /\ Len(NonEmptyRows) >= 2
    /\ \A k \in 1..2 : Stoull(CellOf(NonEmptyRows[k])).value = MaxValue
    /\ db.data[1] = MaxValue

----------------------------------------------------------------------------
\* The number of entries a load may populate: db.N, or min(db.N, maxRows)
\* under a row cap.
Limit == IF maxRows = 0 THEN db.N ELSE Min(db.N, maxRows)

\* What the per-row policy stores for a trimmed cell.
PolicyValue(c) ==
    IF EmptyOrUnparsed(c) THEN 0
    ELSE IF ParsesAbove(c) THEN MaxValue
    ELSE Stoull(c).value

\* C11: validateColumnForD and loadDatabaseFromCSV take the same lines of a
\* source as data rows: the loader stores as many rows as the validator
\* passed (as far as the buffer and the cap admit), and the row the validator
\* rejects as its k-th is the one stored at buffer index k - 1.
C11_ValidatorAndLoaderAgreeOnRows ==
    (Validated /\ Opened) =>
        /\ lres.index >= Min(vres.rows, Limit)
        /\ vres.valid => lres.index = Min(vres.rows, Limit)
        /\ (~vres.valid /\ lres.index >= vres.row) =>
              db.data[vres.row] = IF vres.kind = "toolarge" THEN MaxValue ELSE 0

\* An empty line, a line of whitespace and a row above 2^d - 1, d = 2: the
\* validator rejects its row 2 and the loader clamps at index 1.
C11_Witness ==
    /\ Validated /\ Opened /\ d = 2
    /\ Len(Rows) = 3 /\ Rows[1] = <<>>
    /\ Rows[2] # <<>> /\ ~CountsLine(Rows[2])
    /\ ~vres.valid /\ vres.row = 2 /\ vres.kind = "toolarge"
    /\ lres.index = 2 /\ db.data[1] = 0 /\ db.data[2] = 3

\* C12: when the source has fewer data rows than db.N, loadDatabaseFromCSV
\* returns success, the entries of the rows read follow the per-row policy
\* and every entry from the number of rows read on is 0.
C12_ShortSourceLeavesZeros ==
    (Opened /\ Len(NonEmptyRows) < db.N) =>
        /\ lres.ret
        /\ lres.index < db.N
        /\ \A k \in 1..lres.index : db.data[k] = PolicyValue(CellOf(NonEmptyRows[k]))
        /\ \A i \in (lres.index + 1)..db.N : db.data[i] = 0

\* One row stored in a buffer of three entries that the loader allocated.
C12_Witness ==
    /\ Opened /\ maxRows = 0
    /\ Len(NonEmptyRows) = 1 /\ db.N = 3
    /\ lres.ret /\ lres.index = 1
    /\ db.data[1] # 0 /\ db.data[2] = 0 /\ db.data[3] = 0

\* C13: loadDatabaseFromCSV populates at most db.N entries, at most
\* min(db.N, maxRows) under a row cap; the buffer keeps its db.N entries and
\* every entry it did not write is 0.
C13_PopulatesAtMostLimit ==
    (Loaded /\ ~db.isNull) =>
        /\ Len(db.data) = db.N
        /\ lres.index <= Limit
        /\ \A i \in (lres.index + 1)..db.N : db.data[i] = 0

\* Two rows with non-zero values, a buffer of three entries and a cap of 1:
\* only the first entry is written.
C13_Witness ==
    /\ Opened /\ maxRows = 1 /\ db.N = 3
    /\ Len(NonEmptyRows) >= 2
    /\ PolicyValue(CellOf(NonEmptyRows[2])) # 0
    /\ lres.index = 1 /\ db.data[1] # 0 /\ db.data[2] = 0

\* C14, as stated: loadDatabaseFromCSV returns failure only when the buffer
\* could not be allocated; a source that cannot be opened yields success.
C14_FailsOnlyWithoutBuffer ==
    Loaded => (~lres.ret => db.isNull)

\* C14, amended: loadDatabaseFromCSV returns failure exactly when the buffer
\* could not be allocated or the source cannot be opened; every other
\* condition yields success.
C14_FailsWithoutBufferOrFile ==
    Loaded => (lres.ret <=> (~db.isNull /\ readable))

\* A load into an allocated buffer of two entries that returned failure
\* because the file did not open; the buffer is zeroed.
C14_Witness ==
    /\ Loaded /\ ~readable /\ ~db.isNull
    /\ ~lres.ret /\ db.N = 2 /\ db.data = <<0, 0>>

----------------------------------------------------------------------------
\* The position of the last "." of the path, read off the path itself.
IsLastDot(p, k) == p[k] = "." /\ \A j \in (k + 1)..Len(p) : p[j] # "."

\* The text from the last "." to the end is lit, whatever the case of its
\* letters; upper is lit in capitals.
EndsWithExtension(p, lit, upper) ==
    \E k \in 1..Len(p) :
        /\ IsLastDot(p, k)
        /\ Len(p) - k + 1 = Len(lit)
        /\ \A i \in 1..Len(lit) : p[k + i - 1] \in {lit[i], upper[i]}

IsCsvPath(p) == EndsWithExtension(p, <<".", "c", "s", "v">>, <<".", "C", "S", "V">>)

IsParquetPath(p) ==
    EndsWithExtension(p, <<".", "p", "a", "r", "q", "u", "e", "t">>,
                         <<".", "P", "A", "R", "Q", "U", "E", "T">>)

\* C15: detectFileFormat returns CSV exactly when the text from the last "."
\* of the path to its end is ".csv" in lower case, PARQUET exactly when it is
\* ".parquet", UNKNOWN for every other path, also one without "."; it reads
\* and writes nothing but its result.
C15_FormatFromLoweredExtension ==
    pc = "detected" =>
        /\ kind = "csv" <=> IsCsvPath(path)
        /\ kind = "parquet" <=> IsParquetPath(path)
        /\ kind = "unknown" <=> (~IsCsvPath(path) /\ ~IsParquetPath(path))
        /\ N = 0 /\ vres = NoValidation /\ lres = NoLoad

\* "d.csv/f.Csv": the extension in mixed case after a directory with a dot.
C15_Witness ==
    /\ pc = "detected"
    /\ path = <<"d", ".", "c", "s", "v", "/", "f", ".", "C", "s", "v">>
    /\ kind = "csv"

\* C18: for a path of unrecognised format, main and createVLHEPIRFromFile
\* terminate with a non-zero status before any pass reads the source: no
\* count, no validation, no buffer, no load, no engine.
C18_UnrecognisedPathIsNeverScanned ==
    (~IsCsvPath(path) /\ ~IsParquetPath(path)) =>
        /\ pc \in {"start", "main", "exit1", "return1"}
        /\ N = 0 /\ vres = NoValidation /\ db = NoDatabase
        /\ lres = NoLoad /\ pir = NoEngine

\* createVLHEPIRFromFile has exited on "a.txt".
C18_Witness ==
    /\ path = <<"a", ".", "t", "x", "t">>
    /\ pc = "exit1"
    /\ N = 0 /\ vres = NoValidation /\ lres = NoLoad

----------------------------------------------------------------------------
\* The facade (createVLHEPIRFromCSV or createVLHEPIRFromParquet) has taken a
\* step.
InFacade ==
    pc \in {"f_counted", "f_validated", "f_allocated", "f_loaded", "f_handed",
            "p_counted", "p_validated", "p_allocated", "p_loaded", "p_handed",
            "exit1", "crashed"}

\* C16: in every run of the facade the buffer is created and the load starts
\* only after the validation returned valid, which happens only after the
\* count returned a non-zero value; when the validation returns invalid the
\* process exits and there is no buffer, no load and no engine.
C16_ValidationBeforeBuffer ==
    InFacade =>
        /\ (db # NoDatabase \/ lres.called \/ pir # NoEngine) =>
              (vres.kind # "none" /\ vres.valid /\ N > 0)
        /\ vres.kind # "none" => N > 0
        /\ (vres.kind # "none" /\ ~vres.valid) =>
              (pc = "exit1" /\ db = NoDatabase /\ lres = NoLoad /\ pir = NoEngine)

\* The CSV facade has exited on a source whose second row is above 2^d - 1.
C16_Witness ==
    /\ kind = "csv" /\ pc = "exit1" /\ N = 2
    /\ ~vres.valid /\ vres.kind = "toolarge" /\ vres.row = 2
    /\ db = NoDatabase /\ lres = NoLoad /\ pir = NoEngine

\* Every character of every line after the header is whitespace.
OnlyBlankRows ==
    \A i \in 1..Len(Rows) : \A j \in 1..Len(Rows[i]) : Rows[i][j] \in Whitespace

\* C17: when the row counter returns 0 (a header alone, blank lines only, a
\* source that cannot be opened) the facade exits with a non-zero status and
\* runs no validation, allocates no buffer and constructs no engine.
C17_EmptySourceIsFatal ==
    InFacade =>
        /\ N = 0 =>
              (pc = "exit1" /\ vres = NoValidation /\ db = NoDatabase
                  /\ lres = NoLoad /\ pir = NoEngine)
        /\ (kind = "csv" /\ (~readable \/ OnlyBlankRows)) => N = 0
        /\ (kind = "parquet" /\ (~readable \/ table.cols[1].chunks = <<>>)) => N = 0

\* The CSV facade has exited on a header followed by a line of whitespace.
C17_Witness ==
    /\ kind = "csv" /\ readable /\ hasHeader /\ pc = "exit1"
    /\ Len(GetLines(file)) = 2 /\ CountsLine(GetLines(file)[1])
    /\ GetLines(file)[2] = <<" ">>
    /\ N = 0 /\ vres = NoValidation /\ db = NoDatabase

\* The caller of the routines has gone on after countCSVLines, after
\* validateColumnForD.
AfterCallCount == pc \in {"a_counted", "a_validated", "a_loaded"}
AfterCallValidate == pc \in {"a_validated", "a_loaded"}

\* C19: for a source that cannot be opened countCSVLines returns 0 and
\* validateColumnForD returns false, and the caller goes on after each: no
\* exception, no exit.
C19_UnreadableSourceIsReported ==
    (kind = "csv" /\ ~readable) =>
        /\ AfterCallCount => N = 0
        /\ AfterCallValidate => (vres.kind = "unreadable" /\ ~vres.valid)
        /\ pc \in {"start", "main", "m_stats", "a_counted", "a_validated", "a_loaded",
                 "exit1"}
        /\ pc = "exit1" => (vres = NoValidation /\ lres = NoLoad)

\* The caller has both results for a source that did not open.
C19_Witness ==
    /\ kind = "csv" /\ ~readable /\ pc = "a_validated"
    /\ N = 0 /\ vres.kind = "unreadable" /\ ~vres.valid

\* The entries of the column "v" in row order.
ColumnEntries == Flatten(table.cols[2].chunks)

\* C20: loadDatabaseFromParquet stores 0 for a null entry, 2^d - 1 for a
\* value above 2^d - 1 and the value itself (reduced modulo 2^d) otherwise,
\* so every stored entry is below 2^d.  A negative reading of a UINT64 entry
\* is a value of 2^63 or more.
C20_ParquetStoreRules ==
    (pc = "pa_loaded" /\ lres.ret /\ columnName = "v") =>
        \A i \in 1..lres.index :
            /\ 0 <= db.data[i] /\ db.data[i] < Pow2(d)
            /\ ColumnEntries[i].null => db.data[i] = 0
            /\ (~ColumnEntries[i].null /\ ColumnEntries[i].v > MaxValue) =>
                  db.data[i] = MaxValue
            /\ (~ColumnEntries[i].null /\ ColumnEntries[i].v \in 0..MaxValue) =>
                  db.data[i] = ColumnEntries[i].v

----------------------------------------------------------------------------
\* The column validateParquetColumnForD and loadDatabaseFromParquet select:
\* the named one, the first one when no name is given, 0 when there is none.
SelectedColumn ==
    IF columnName = "" THEN 1
    ELSE IF \E i \in 1..Len(table.cols) : table.cols[i].name = columnName
    THEN CHOOSE i \in 1..Len(table.cols) :
            /\ table.cols[i].name = columnName
            /\ \A j \in 1..(i - 1) : table.cols[j].name # columnName
    ELSE 0

SelectedType == table.cols[SelectedColumn].type

SelectedEntries == Flatten(table.cols[SelectedColumn].chunks)

IsInt64Type(ty) == ty \in {"INT64", "UINT64"}

\* A non-null entry the validation must refuse: negative as INT64, or above
\* 2^d - 1 (a negative number stands for an unsigned value of 2^63 or more).
EntryOutOfRange(e) == ~e.null /\ (e.v < 0 \/ e.v > MaxValue)

AfterCallParquetValidate == pc = "pa_validated" /\ readable

\* C21: validateParquetColumnForD returns false when the selected column (the
\* named one, or the first when no name is given) is missing, when its
\* physical type is not a signed or unsigned 64-bit integer whatever it
\* holds, even nothing, and when it holds a non-null entry that is negative
\* or above 2^d - 1; null entries never make it return false.
C21_ParquetValidatorRejects ==
    AfterCallParquetValidate =>
        /\ SelectedColumn = 0 => ~vres.valid
        /\ SelectedColumn # 0 =>
              /\ ~IsInt64Type(SelectedType) => ~vres.valid
              /\ (\E i \in 1..Len(SelectedEntries) :
                      EntryOutOfRange(SelectedEntries[i])) => ~vres.valid
              /\ ( /\ IsInt64Type(SelectedType)
                   /\ \A i \in 1..Len(SelectedEntries) :
                         ~EntryOutOfRange(SelectedEntries[i]) ) => vres.valid

----------------------------------------------------------------------------
\* C22: the facade allocates the destination buffer once and the engine owns
\* that very buffer after the hand-off: the buffer is moved, not copied, and
\* the pipeline keeps no reference to it.
C22_BufferIsMovedToEngine ==
    Handed => pir.buf = "facade" /\ db.buf = "none"

----------------------------------------------------------------------------
\* The values of the cells printCSVStats has to take into account: those of
\* the rows whose trimmed first cell is text that stoull accepts.
ParsedValues ==
    {Stoull(CellOf(Rows[i])).value :
        i \in {j \in 1..Len(Rows) :
                  /\ Rows[j] # <<>>
                  /\ ~EmptyOrUnparsed(CellOf(Rows[j]))}}

\* The rows countCSVLines has to count: those with a character that is not
\* whitespace.
CountedRows == {i \in 1..Len(Rows) : ~(\A j \in 1..Len(Rows[i]) : Rows[i][j] \in Whitespace)}

StatsPrinted == kind = "csv" /\ run.stats.printed

\* C23, the report: printCSVStats reports the row count of countCSVLines,
\* and its minimum and maximum are those of the cells that parse; an empty
\* cell and a cell that fails to parse contribute nothing (with no parsed
\* cell the minimum stays UINT64_MAX and the maximum 0).
C23_StatsReport ==
    StatsPrinted =>
        /\ run.stats.N = (IF readable THEN Cardinality(CountedRows) ELSE 0)
        /\ (readable /\ ParsedValues # {}) =>
              /\ run.stats.min \in ParsedValues
              /\ run.stats.max \in ParsedValues
              /\ \A v \in ParsedValues :
                    ~ULess(v, run.stats.min) /\ ~ULess(run.stats.max, v)
        /\ (~readable \/ ParsedValues = {}) =>
              (run.stats.min = UllMax /\ run.stats.max = 0)

\* C23: printCSVStats reports the row count of countCSVLines and the minimum
\* and maximum of exactly the cells that parse, and it changes nothing the
\* ingestion passes read or write, so the ingestion after it is the
\* ingestion without it.
C23_StatsAreFaithfulAndInert ==
    /\ []C23_StatsReport
    /\ [][MainStats => UNCHANGED <<source, N, vres, db, maxRows, lres, pir>>]_vars

\* The statistics of "h / abc / 7": one cell fails to parse, the other is
\* both the minimum and the maximum, and the facade has then counted 2 rows.
C23_Witness ==
    /\ StatsPrinted /\ pc = "f_counted"
    /\ Len(Rows) = 2 /\ Rows[1] = <<"a", "b", "c">> /\ Rows[2] = <<"7">>
    /\ run.stats.N = 2 /\ N = 2
    /\ run.stats.min = 7 /\ run.stats.max = 7

----------------------------------------------------------------------------
\* parseN has returned a pair.
ParseNReturned == run.gen.called /\ ~run.gen.thrown

\* The largest exponent the properties of parseN are stated for.
MaxExponent == 29

\* The uint64_t value is a power of two.
IsPowerOfTwo(u) == \E k \in 0..63 : u = ShiftBytes(k)

RECURSIVE Power(_, _)
Power(b, e) == IF e = 0 THEN 1 ELSE b * Power(b, e - 1)

\* b and e are literals and b to the power e is x.
PowerIs(b, e, x) ==
    /\ IsNatLiteral(b) /\ IsNatLiteral(e)
    /\ Len(b) <= 2 /\ Len(e) <= 2 /\ DecValue(e) <= MaxExponent
    /\ Power(DecValue(b), DecValue(e)) = x

\* The text denotes x: as a plain number, as b^e or as b**e.
ArgDenotes(arg, x) ==
    \/ IsNatLiteral(arg) /\ Len(arg) <= 9 /\ DecValue(arg) = x
    \/ \E k \in 1..Len(arg) :
          /\ arg[k] = "^"
          /\ PowerIs(SubSeq(arg, 1, k - 1), SubSeq(arg, k + 1, Len(arg)), x)
    \/ \E k \in 1..(Len(arg) - 1) :
          /\ arg[k] = "*" /\ arg[k + 1] = "*"
          /\ PowerIs(SubSeq(arg, 1, k - 1), SubSeq(arg, k + 2, Len(arg)), x)

\* C24: parseN returns (N, n) with N = 2^n whenever n > 0 and with n = 0
\* whenever N is not a power of two; for a text that denotes a power of two
\* 2^k other than 1, written as a plain number, as b^e or as b**e, it
\* returns n = k and N = 2^k.
C24_ParseNExponent ==
    ParseNReturned =>
        /\ run.gen.n # Uint64(0) =>
              (\E k \in 1..63 : run.gen.n = Uint64(k) /\ run.gen.N = ShiftBytes(k))
        /\ ~IsPowerOfTwo(run.gen.N) => run.gen.n = Uint64(0)
        /\ \A k \in 1..MaxExponent :
              ArgDenotes(run.arg, Pow2(k)) =>
                  (run.gen.n = Uint64(k) /\ run.gen.N = Uint64(Pow2(k)))

----------------------------------------------------------------------------
FileMode == ~useRandomGeneration(path)

\* C25: in every run of main a query index that is not below pir.N makes
\* the process return 1 before pir.Query, pir.Answer or pir.Recover is
\* called, so these are only ever called with an index below pir.N; and a
\* run in file mode returns 0 only when the recovered value is the entry
\* the loaded database holds at the query index.
C25_QueryIndexInBounds ==
    /\ (run.checked /\ ~ULess64(Uint64(run.queryIndex), pir.N)) =>
          (pc = "return1" /\ run.calls = {})
    /\ run.calls # {} => (run.checked /\ ULess64(Uint64(run.queryIndex), pir.N))
    /\ (FileMode /\ pc = "return0") =>
          /\ run.calls = {"Query", "Answer", "Recover"}
          /\ ULess(run.queryIndex, Len(db.data))
          /\ run.result = db.data[run.queryIndex + 1]

\* A run on a CSV file of two rows asked for index 2: it has returned 1
\* and the engine was never queried.
C25_Witness ==
    /\ kind = "csv" /\ pir.N = Uint64(2) /\ run.checked /\ run.queryIndex = 2
    /\ pc = "return1" /\ run.calls = {}

----------------------------------------------------------------------------
\* The lines countCSVLines has to count, in order: those with a character
\* that is not whitespace.
CountedLines ==
    SelectSeq(Rows, LAMBDA l : \E j \in 1..Len(l) : l[j] \notin Whitespace)

\* loadDatabaseFromCSV has read the source into a buffer of as many entries
\* as countCSVLines returns, without a row cap.
LoadedAtRowCount == Opened /\ db.N = RowCount /\ maxRows = 0

\* C26: with N = countCSVLines(source), the rows loadDatabaseFromCSV stores
\* are the counted rows in order: entry i comes from the (i+1)-th counted
\* line; no counted row is dropped and no line of whitespace takes a slot.
C26_LoadedRowsAreCountedRows ==
    LoadedAtRowCount =>
        /\ lres.index = Len(CountedLines)
        /\ \A i \in 1..db.N : db.data[i] = PolicyValue(CellOf(CountedLines[i]))

\* The CSV facade has loaded its buffer.
FacadeHasLoaded == Opened /\ pc \in {"f_loaded", "f_handed", "crashed"}

\* C27: inside createVLHEPIRFromCSV the load is never short: the loader
\* ends with its index equal to N = countCSVLines(source), since every
\* counted line is a row of the loader, and the warning of a short source
\* is never printed.
C27_FacadeLoadIsNeverShort ==
    FacadeHasLoaded =>
        /\ lres.index = N
        /\ lres.index = db.N
        /\ Len(NonEmptyRows) >= N

\* The facade has loaded "h / (blank) / 1": one counted row, two rows for
\* the loader, and the index ends at 1.
C27_Witness ==
    /\ FacadeHasLoaded /\ hasHeader /\ pc = "f_loaded"
    /\ Len(Rows) = 2 /\ Rows[1] = <<" ">> /\ Rows[2] = <<"1">>
    /\ N = 1 /\ lres.index = 1

----------------------------------------------------------------------------
\* loadDatabaseFromParquet has run on a buffer the caller allocated.
ParquetLoadedInto == kind = "parquet" /\ lres.called /\ db.buf = "caller"

\* C28: loadDatabaseFromParquet never writes at an index >= db.N, whatever
\* the number of rows of the table, the row cap and the length db.N of the
\* buffer the Database already holds: the indices written, 0 to index - 1,
\* are all below db.N.
C28_ParquetWritesInsideBuffer ==
    ParquetLoadedInto => lres.index <= db.N

\* The buffer the same call leaves when it starts from a buffer of zeros.
FromZeros ==
    IF kind = "csv"
    THEN loadDatabaseFromCSV(AllocatedDatabase(db.N, Zeroed(db.N)), TRUE, NoMalloc,
                             file, readable, d, hasHeader, maxRows).db.data
    ELSE loadDatabaseFromParquet(AllocatedDatabase(db.N, Zeroed(db.N)), TRUE, NoMalloc,
                                 table, readable, d, columnName, maxRows).db.data

\* A load into a buffer of the caller has returned without writing past its
\* end.
LoadedInto == pc = "b_loaded" /\ lres.ret /\ lres.index <= db.N

\* C29: what a load leaves in the buffer does not depend on what the buffer
\* held before: for both loaders, the same call on a buffer of the same
\* length with other contents ends with the same buffer, every entry being
\* written from the source or reset to 0.
C29_LoadIgnoresPriorContents ==
    LoadedInto => db.data = FromZeros

----------------------------------------------------------------------------
\* The trimmed cell is a decimal literal above 2^64 - 1.
TooLargeFor64Bits(c) ==
    /\ IsNatLiteral(c)
    /\ \/ Len(StripZeros(c)) > Len(UllMaxDigits)
       \/ /\ Len(StripZeros(c)) = Len(UllMaxDigits)
          /\ DigitsGreater(StripZeros(c), UllMaxDigits)

\* C30: a cell that is a decimal literal above 2^64 - 1 is a parse failure
\* and not a value out of range: validateColumnForD returns false for the
\* source, reporting the cell as non-numeric when it is the one it stops
\* at, and loadDatabaseFromCSV stores 0 at its row without clamping,
\* although a smaller cell above 2^d - 1 is stored as 2^d - 1.
C30_OverlongLiteralIsParseFailure ==
    /\ (Validated /\ readable) =>
          /\ (\E k \in 1..Len(NonEmptyRows) :
                  TooLargeFor64Bits(CellOf(NonEmptyRows[k]))) => ~vres.valid
          /\ (~vres.valid /\ TooLargeFor64Bits(CellOf(NonEmptyRows[vres.row]))) =>
                vres.kind = "nonnumeric"
    /\ Opened =>
          \A k \in 1..lres.index :
              TooLargeFor64Bits(CellOf(NonEmptyRows[k])) =>
                  (db.data[k] = 0 /\ (k - 1) \notin lres.clamped)

\* "7" then 2^64 with d = 2: the validator has stopped at row 1, and the
\* loader has stored 3 for the 7 and 0 for the larger literal.
C30_Witness ==
    /\ Validated /\ Opened /\ d = 2 /\ ~hasHeader
    /\ Len(Rows) = 2 /\ Rows[1] = <<"7">> /\ Rows[2] = TwoPow64Digits
    /\ ~vres.valid /\ vres.row = 1
    /\ lres.index = 2 /\ db.data = <<3, 0>> /\ lres.clamped = {0}

============================================================================
